---- MODULE Spec2Model ----
(***************************************************************************)
(* Authenticated-request dispatch of the Gate.io and XT.com futures        *)
(* connectors (connectors/gateio/client.go, connectors/xt/client.go).      *)
(*                                                                         *)
(* Go strings and byte slices are sequences of tokens: a token is one      *)
(* character, or an atomic piece of text that no operation of the code     *)
(* looks inside (an origin such as "https://fapi.xt.com", a path segment,  *)
(* an HTTP method).  Hash and MAC digests are symbolic terms, injective in *)
(* their arguments.                                                        *)
(***************************************************************************)
EXTENDS Integers, Sequences, FiniteSets, TLC

VARIABLES client, calls, nowMs, setter

vars == <<client, calls, nowMs, setter>>

----------------------------------------------------------------------------
(* Bounds of the model *)

\* last clock value (unix milliseconds) at which the clock still advances
MaxClockMs == 2000

----------------------------------------------------------------------------
(* Strings *)

EmptyStr == <<>>

\* byte value of a character, the order sort.Strings compares by; a word that
\* is one token (a parameter name of an endpoint) has the value of its first
\* byte, which tells apart the names that meet in one map
ByteOf(ch) ==
    CASE ch = "#" -> 35
      [] ch = "&" -> 38
      [] ch = "1" -> 49
      [] ch = "2" -> 50
      [] ch = "=" -> 61
      [] ch = "a" -> 97
      [] ch = "b" -> 98
      [] ch = "contract"     -> 99
      [] ch = "list"         -> 108
      [] ch = "margin"       -> 109
      [] ch = "positionSide" -> 112
      [] ch = "status"       -> 115
      [] ch = "symbol"       -> 115
      [] ch = "type"         -> 116
      [] OTHER    -> 120

RECURSIVE StrLess(_, _)
\* Go's s < t on strings: bytewise lexicographic, a proper prefix is smaller
StrLess(s, t) ==
    IF t = <<>> THEN FALSE
    ELSE IF s = <<>> THEN TRUE
    ELSE IF ByteOf(Head(s)) # ByteOf(Head(t)) THEN ByteOf(Head(s)) < ByteOf(Head(t))
    ELSE StrLess(Tail(s), Tail(t))

\* one decimal digit
Digit(d) == <<"0", "1", "2", "3", "4", "5", "6", "7", "8", "9">>[d + 1]

RECURSIVE FormatInt(_)
\* strconv.FormatInt(n, 10) and fmt.Sprintf("%d", n) for n >= 0
FormatInt(n) ==
    IF n < 10 THEN <<Digit(n)>> ELSE FormatInt(n \div 10) \o <<Digit(n % 10)>>

\* url.QueryEscape of one character: unreserved characters stay, the rest is %XX
EscapeChar(ch) ==
    CASE ch = "&" -> <<"%", "2", "6">>
      [] ch = "#" -> <<"%", "2", "3">>
      [] ch = "=" -> <<"%", "3", "D">>
      [] ch = "[" -> <<"%", "5", "B">>
      [] ch = "]" -> <<"%", "5", "D">>
      [] ch = "{" -> <<"%", "7", "B">>
      [] ch = "}" -> <<"%", "7", "D">>
      [] ch = ":" -> <<"%", "3", "A">>
      [] ch = "\"symbol\""   -> <<"%", "2", "2", "symbol", "%", "2", "2">>
      [] ch = "\"btc_usdt\"" -> <<"%", "2", "2", "btc_usdt", "%", "2", "2">>
      [] OTHER    -> <<ch>>

RECURSIVE QueryEscape(_)
QueryEscape(s) ==
    IF s = <<>> THEN <<>> ELSE EscapeChar(Head(s)) \o QueryEscape(Tail(s))

\* strings.TrimSuffix(s, "/")
TrimSuffixSlash(s) ==
    IF Len(s) > 0 /\ s[Len(s)] = "/" THEN SubSeq(s, 1, Len(s) - 1) ELSE s

----------------------------------------------------------------------------
(* Sorting the keys of a map *)

RECURSIVE InsertSorted(_, _)
InsertSorted(k, sorted) ==
    IF sorted = <<>> THEN <<k>>
    ELSE IF StrLess(k, Head(sorted)) THEN <<k>> \o sorted
    ELSE <<Head(sorted)>> \o InsertSorted(k, Tail(sorted))

RECURSIVE SortStrings(_)
\* sort.Strings(keys): keys arrive in the order the map iteration produced them
SortStrings(keys) ==
    IF keys = <<>> THEN <<>> ELSE InsertSorted(Head(keys), SortStrings(Tail(keys)))

\* the orders in which ranging over a Go map with key set S can yield the keys
IterationOrders(S) ==
    {o \in [1..Cardinality(S) -> S] : \A i, j \in 1..Cardinality(S) : i # j => o[i] # o[j]}

----------------------------------------------------------------------------
(* Parameter maps and request bodies *)

\* characters a caller's parameter keys and values are made of
Keys == {<<"a">>, <<"b">>}

\* the values a caller gives the key k
ValsOf(k) == IF k = <<"a">> THEN {<<"1">>, <<"&">>} ELSE {<<"2">>}

\* a Go map with no entry
EmptyMap == [k \in {} |-> <<>>]

\* map[string]string values; isNil tells a nil map from an empty one
FormMaps ==
    UNION {{m \in [D -> UNION {ValsOf(k) : k \in D}] : \A k \in D : m[k] \in ValsOf(k)} :
           D \in SUBSET Keys}

NilParams == [isNil |-> TRUE, m |-> EmptyMap]

Params(m) == [isNil |-> FALSE, m |-> m]

XtParamInputs == {NilParams} \cup {Params(m) : m \in FormMaps}

\* url.Values: every key holds a list of values
ValListsOf(k) == IF k = <<"a">> THEN {<< <<"1">> >>, << <<"&">>, <<"1">> >>} ELSE {<< <<"2">> >>}

GateValues ==
    UNION {{m \in [D -> UNION {ValListsOf(k) : k \in D}] : \A k \in D : m[k] \in ValListsOf(k)} :
           D \in SUBSET Keys}

GateParamInputs == {NilParams} \cup {Params(m) : m \in GateValues}

\* payloads handed to json.Marshal: a request struct, a list, a nil pointer,
\* and a value encoding/json rejects (a channel, a NaN)
Payloads == {"order", "ids", "nilptr", "chan"}

\* bodyParams interface{}: nil, a map[string]string, or any other value
NilBody == [kind |-> "nil", form |-> EmptyMap, payload |-> "none"]

FormBody(m) == [kind |-> "form", form |-> m, payload |-> "none"]

JsonBody(p) == [kind |-> "json", form |-> EmptyMap, payload |-> p]

XtBodyInputs == {NilBody} \cup {FormBody(m) : m \in FormMaps} \cup {JsonBody(p) : p \in Payloads}

GateBodyInputs == {NilBody} \cup {JsonBody(p) : p \in Payloads}

\* json.Marshal(v): the serialized bytes, or an error; the documents of the XT
\* order requests are written with their symbol member, the others left out
JsonMarshal(p) ==
    CASE p = "order"  -> [ok |-> TRUE, bytes |-> <<"{", "\"size\"", ":", "1", ",", "\"price\"", ":", "\"2\"", "}">>]
      [] p = "ids"    -> [ok |-> TRUE, bytes |-> <<"[", "\"1\"", ",", "\"2\"", "]">>]
      [] p = "nilptr" -> [ok |-> TRUE, bytes |-> <<"null">>]
      [] p = "PlaceOrderRequest" ->
             [ok |-> TRUE, bytes |-> <<"{", "\"symbol\"", ":", "\"btc_usdt\"", "}">>]
      [] p = "CreatePlanOrderRequest" ->
             [ok |-> TRUE, bytes |-> <<"{", "\"symbol\"", ":", "\"btc_usdt\"", ",",
                                       "\"stopPrice\"", ":", "\"3\"", "}">>]
      [] p = "[]PlaceOrderRequest" ->
             [ok |-> TRUE, bytes |-> <<"[", "{", "\"symbol\"", ":", "\"btc_usdt\"", "}", "]">>]
      [] OTHER        -> [ok |-> FALSE, bytes |-> <<>>]

RECURSIVE EncodePairs(_, _)
\* "k=v&k=v" for the keys in the given order, keys and values query-escaped
EncodePairs(keys, m) ==
    IF keys = <<>> THEN <<>>
    ELSE QueryEscape(Head(keys)) \o <<"=">> \o QueryEscape(m[Head(keys)])
         \o (IF Tail(keys) = <<>> THEN <<>> ELSE <<"&">> \o EncodePairs(Tail(keys), m))

\* sortAndEncodeParams without the sort: the keys stay in iteration order
SortAndEncodeParamsUnsorted(params, order) ==
    IF params.isNil \/ DOMAIN params.m = {} THEN <<>>
    ELSE EncodePairs(order, params.m)

\* sortAndEncodeParams(params); order is the order the range loop yields the keys in
SortAndEncodeParams(params, order) ==
    IF params.isNil \/ DOMAIN params.m = {} THEN <<>>
    ELSE EncodePairs(SortStrings(order), params.m)

RECURSIVE EncodeValueList(_, _)
\* one key of url.Values.Encode: "k=v1&k=v2"
EncodeValueList(k, vs) ==
    IF vs = <<>> THEN <<>>
    ELSE QueryEscape(k) \o <<"=">> \o QueryEscape(Head(vs))
         \o (IF Tail(vs) = <<>> THEN <<>> ELSE <<"&">> \o EncodeValueList(k, Tail(vs)))

RECURSIVE EncodeValues(_, _)
EncodeValues(keys, m) ==
    IF keys = <<>> THEN <<>>
    ELSE EncodeValueList(Head(keys), m[Head(keys)])
         \o (IF Tail(keys) = <<>> THEN <<>> ELSE <<"&">> \o EncodeValues(Tail(keys), m))

\* url.Values.Encode without sorting the keys
ValuesEncodeUnsorted(params, order) ==
    EncodeValues(order, params.m)

\* queryParams.Encode(): keys sorted, every value of a key in its list order
ValuesEncode(params, order) ==
    EncodeValues(SortStrings(order), params.m)

----------------------------------------------------------------------------
(* Digests *)

\* hex.EncodeToString(sha512.Sum(body)): a term that determines body
Sha512Hex(body) == <<"sha512(">> \o body \o <<")">>

\* hex.EncodeToString(hmac(alg, key, msg)): a term that determines alg, key and msg
HmacHex(alg, key, msg) == <<"hmac-", alg, "(">> \o key \o <<",">> \o msg \o <<")">>

----------------------------------------------------------------------------
(* Clients *)

\* gateio: const defaultBaseURL, apiPrefix
defaultBaseURL == <<"https://api.gateio.ws">>

apiPrefix == <<"/api/v4">>

\* xt: const defaultUsdtBaseURL, defaultCoinBaseURL, defaultRecvWindow
defaultUsdtBaseURL == <<"https://fapi.xt.com">>

defaultCoinBaseURL == <<"https://dapi.xt.com">>

defaultRecvWindow == <<"5", "0", "0", "0">>

\* credential strings a client is constructed with
ApiKeys == {EmptyStr, <<"K">>}

SecretKeys == {EmptyStr, <<"S">>}

\* the Timeout, in seconds, of the http.Client a constructor makes when it is given
\* none: 10 * time.Second
defaultTimeout == 10

\* an *http.Client: the object it points to (id) and its Timeout in seconds, 0
\* meaning no timeout; NilHTTPClient is the nil pointer
NilHTTPClient == [id |-> "nil", Timeout |-> 0]

\* var DefaultHTTPClient = &http.Client{Timeout: 10 * time.Second}, of either package
DefaultHTTPClient == [id |-> "DefaultHTTPClient", Timeout |-> defaultTimeout]

\* the clients a caller supplies: one without a timeout, one with its own
SuppliedHTTPClients == {[id |-> "supplied", Timeout |-> 0], [id |-> "supplied", Timeout |-> 30]}

HTTPClients == {NilHTTPClient} \cup SuppliedHTTPClients

\* NewClient of a package that leaves a nil httpClient without a timeout
GateNewClientNoTimeout(apiKey, secretKey, httpClient) ==
    [pkg |-> "gateio", apiKey |-> apiKey, secretKey |-> secretKey,
     baseURL |-> <<"https://api.gateio.ws">>,
     usdtBaseURL |-> <<>>, coinBaseURL |-> <<>>, recvWindow |-> <<>>,
     httpClient |-> IF httpClient.id = "nil" THEN [id |-> "NewClient", Timeout |-> 0]
                    ELSE httpClient]

\* gateio.NewClient(apiKey, secretKey, httpClient)
GateNewClient(apiKey, secretKey, httpClient) ==
    [pkg |-> "gateio", apiKey |-> apiKey, secretKey |-> secretKey,
     baseURL |-> defaultBaseURL,
     usdtBaseURL |-> EmptyStr, coinBaseURL |-> EmptyStr, recvWindow |-> EmptyStr,
     httpClient |-> IF httpClient = NilHTTPClient
                    THEN [id |-> "NewClient", Timeout |-> defaultTimeout]
                    ELSE httpClient]

\* gateio.New(apiKey, secretKey, httpClient)
GateNew(apiKey, secretKey, httpClient) ==
    GateNewClient(apiKey, secretKey,
                  IF httpClient = NilHTTPClient THEN DefaultHTTPClient ELSE httpClient)

\* gateio.NewPublicOnly(httpClient)
GateNewPublicOnly(httpClient) ==
    GateNewClient(EmptyStr, EmptyStr,
                  IF httpClient = NilHTTPClient THEN DefaultHTTPClient ELSE httpClient)

\* xt.NewClient(apiKey, secretKey, httpClient)
XtNewClient(apiKey, secretKey, httpClient) ==
    [pkg |-> "xt", apiKey |-> apiKey, secretKey |-> secretKey,
     baseURL |-> EmptyStr,
     usdtBaseURL |-> defaultUsdtBaseURL, coinBaseURL |-> defaultCoinBaseURL,
     recvWindow |-> defaultRecvWindow,
     httpClient |-> IF httpClient = NilHTTPClient
                    THEN [id |-> "NewClient", Timeout |-> defaultTimeout]
                    ELSE httpClient]

\* xt.New(apiKey, secretKey, httpClient)
XtNew(apiKey, secretKey, httpClient) ==
    XtNewClient(apiKey, secretKey,
                IF httpClient = NilHTTPClient THEN DefaultHTTPClient ELSE httpClient)

\* xt.NewPublicOnly(httpClient)
XtNewPublicOnly(httpClient) ==
    XtNewClient(EmptyStr, EmptyStr,
                IF httpClient = NilHTTPClient THEN DefaultHTTPClient ELSE httpClient)

\* xt Client.getBaseURL(underlyingType)
XtGetBaseURL(c, underlyingType) == c.usdtBaseURL

UnderlyingTypes == {"USDT-M", "COIN-M"}

----------------------------------------------------------------------------
(* Signers *)

\* the string Gate.io generateSignature signs
GateSignString(method, path, query, body, timestamp) ==
    LET hashedPayload == Sha512Hex(body)
    IN  <<method, "\n">> \o path \o <<"\n">> \o query \o <<"\n">>
        \o hashedPayload \o <<"\n">> \o timestamp

\* generateSignature that leaves the hash segment out when there is no body
GateGenerateSignatureSkipEmpty(c, method, path, query, body, timestamp) ==
    HmacHex("sha512", c.secretKey,
            IF body = <<>>
            THEN <<method, "\n">> \o path \o <<"\n">> \o query \o <<"\n">> \o <<"\n">> \o timestamp
            ELSE GateSignString(method, path, query, body, timestamp))

\* gateio Client.generateSignature(method, path, query, body, timestamp)
GateGenerateSignature(c, method, path, query, body, timestamp) ==
    HmacHex("sha512", c.secretKey, GateSignString(method, path, query, body, timestamp))

\* the string XT generateSignature signs, separators written even for empty segments
XtSignStringAllSegments(c, timestamp, path, sortedQuery, bodyString) ==
    <<"validate-appkey=">> \o c.apiKey \o <<"&validate-timestamp=">> \o timestamp
    \o <<"#">> \o path \o <<"#">> \o sortedQuery \o <<"#">> \o bodyString

\* the string XT generateSignature signs, each segment marked as query or body
XtSignStringMarked(c, timestamp, path, sortedQuery, bodyString) ==
    <<"validate-appkey=">> \o c.apiKey \o <<"&validate-timestamp=">> \o timestamp
    \o <<"#">> \o path
    \o (IF sortedQuery # <<>> THEN <<"#", "query:">> \o sortedQuery ELSE <<>>)
    \o (IF bodyString # <<>> THEN <<"#", "body:">> \o bodyString ELSE <<>>)

\* the string XT generateSignature signs, the body segment forgotten
XtSignStringNoBody(c, timestamp, path, sortedQuery, bodyString) ==
    <<"validate-appkey=">> \o c.apiKey \o <<"&validate-timestamp=">> \o timestamp
    \o <<"#">> \o path \o (IF sortedQuery # <<>> THEN <<"#">> \o sortedQuery ELSE <<>>)

\* the string XT generateSignature signs: headerPart followed by dataPart
XtSignString(c, timestamp, path, sortedQuery, bodyString) ==
    LET headerPart == <<"validate-appkey=">> \o c.apiKey
                      \o <<"&validate-timestamp=">> \o timestamp
        dataPart == <<"#">> \o path
                    \o (IF sortedQuery # <<>> THEN <<"#">> \o sortedQuery ELSE <<>>)
                    \o (IF bodyString # <<>> THEN <<"#">> \o bodyString ELSE <<>>)
    IN  headerPart \o dataPart

\* generateSignature with the receive window signed as well
XtGenerateSignatureRecvWindow(c, timestamp, path, sortedQuery, bodyString) ==
    HmacHex("sha256", c.secretKey,
            XtSignString(c, timestamp \o <<"&validate-recvwindow=">> \o c.recvWindow,
                         path, sortedQuery, bodyString))

\* xt Client.generateSignature(timestamp, path, sortedQuery, bodyString)
XtGenerateSignature(c, timestamp, path, sortedQuery, bodyString) ==
    HmacHex("sha256", c.secretKey, XtSignString(c, timestamp, path, sortedQuery, bodyString))

----------------------------------------------------------------------------
(* Building a request *)

\* http.Request headers: header name -> value
NoHeaders == [h \in {} |-> <<>>]

SetHeader(headers, name, value) == (name :> value) @@ headers

\* the *http.Request handed to the transport
NoReq == [method |-> "", url |-> <<>>, body |-> <<>>, headers |-> NoHeaders]

\* the arguments generateSignature was called with
NoSig == [method |-> "", path |-> <<>>, query |-> <<>>, body |-> <<>>, timestamp |-> <<>>]

\* net/http validMethod: a non-empty token
ValidMethods == {"GET", "POST", "PUT", "DELETE"}

\* result of the part of sendRequest that runs before the transport is used
Built(req, signed, sig) == [err |-> "", req |-> req, signed |-> signed, sig |-> sig]

Failed(err) == [err |-> err, req |-> NoReq, signed |-> FALSE, sig |-> NoSig]

\* xt sendRequest: fullURL
XtFullURL(baseURL, path, sortedQueryString) ==
    baseURL \o path
    \o (IF sortedQueryString # <<>> THEN <<"?">> \o sortedQueryString ELSE <<>>)

\* "Prepare Body" with the form data written to the wire in iteration order
XtPrepareBodyWireUnsorted(bodyParams, order) ==
    CASE bodyParams.kind = "nil" ->
           [ok |-> TRUE, wire |-> <<>>, forSig |-> <<>>, contentType |-> <<>>]
      [] bodyParams.kind = "form" ->
           [ok |-> TRUE,
            wire |-> SortAndEncodeParamsUnsorted(Params(bodyParams.form), order),
            forSig |-> SortAndEncodeParams(Params(bodyParams.form), order),
            contentType |-> <<"application/x-www-form-urlencoded">>]
      [] OTHER ->
           LET marshalled == JsonMarshal(bodyParams.payload)
           IN  [ok |-> marshalled.ok, wire |-> marshalled.bytes,
                forSig |-> marshalled.bytes, contentType |-> <<"application/json">>]

\* the body preparation that labels every body as JSON
XtPrepareBodyJsonType(bodyParams, order) ==
    CASE bodyParams.kind = "nil" ->
           [ok |-> TRUE, wire |-> <<>>, forSig |-> <<>>, contentType |-> <<>>]
      [] bodyParams.kind = "form" ->
           LET encoded == SortAndEncodeParams(Params(bodyParams.form), order)
           IN  [ok |-> TRUE, wire |-> encoded, forSig |-> encoded,
                contentType |-> <<"application/json">>]
      [] OTHER ->
           LET marshalled == JsonMarshal(bodyParams.payload)
           IN  [ok |-> marshalled.ok, wire |-> marshalled.bytes,
                forSig |-> marshalled.bytes, contentType |-> <<"application/json">>]

\* xt sendRequest, "Prepare Body": the bytes for the wire, the string for the
\* signature and the content type
XtPrepareBody(bodyParams, order) ==
    CASE bodyParams.kind = "nil" ->
           [ok |-> TRUE, wire |-> <<>>, forSig |-> <<>>, contentType |-> <<>>]
      [] bodyParams.kind = "form" ->
           LET encoded == SortAndEncodeParams(Params(bodyParams.form), order)
           IN  [ok |-> TRUE, wire |-> encoded, forSig |-> encoded,
                contentType |-> <<"application/x-www-form-urlencoded">>]
      [] OTHER ->
           LET marshalled == JsonMarshal(bodyParams.payload)
           IN  [ok |-> marshalled.ok, wire |-> marshalled.bytes,
                forSig |-> marshalled.bytes, contentType |-> <<"application/json">>]

\* the signed query part with DELETE forgotten
XtSigQueryPartGetOnly(method, sortedQueryString) ==
    IF method = "GET" THEN sortedQueryString ELSE <<>>

\* xt sendRequest: the query part that is signed
XtSigQueryPart(method, sortedQueryString) ==
    IF method = "GET" \/ method = "DELETE" THEN sortedQueryString ELSE <<>>

\* the timestamp in seconds, as time.Now().Unix() would give it
XtTimestampSeconds(now) == FormatInt(now \div 1000)

\* strconv.FormatInt(time.Now().UnixMilli(), 10)
XtTimestamp(now) == FormatInt(now)

\* the credential check with && in place of ||
XtMissingCredentialsBoth(c) == c.apiKey = <<>> /\ c.secretKey = <<>>

\* xt sendRequest: c.apiKey == "" || c.secretKey == ""
XtMissingCredentials(c) == c.apiKey = <<>> \/ c.secretKey = <<>>

\* the authentication headers with the secret sent in place of the key
XtAuthHeadersSecret(c, headers, timestamp, signature) ==
    SetHeader(SetHeader(SetHeader(headers,
        "validate-appkey", c.secretKey),
        "validate-timestamp", timestamp),
        "validate-signature", signature)

\* the authentication headers with the receive window sent along
XtAuthHeadersRecvWindow(c, headers, timestamp, signature) ==
    SetHeader(SetHeader(SetHeader(SetHeader(headers,
        "validate-appkey", c.apiKey),
        "validate-timestamp", timestamp),
        "validate-signature", signature),
        "validate-recvwindow", c.recvWindow)

\* xt sendRequest: the three req.Header.Set calls of the private branch
XtAuthHeaders(c, headers, timestamp, signature) ==
    SetHeader(SetHeader(SetHeader(headers,
        "validate-appkey", c.apiKey),
        "validate-timestamp", timestamp),
        "validate-signature", signature)

\* xt Client.sendRequest up to the call of httpClient.Do
XtBuildRequest(c, now, method, baseURL, path, queryParams, qOrder, bodyParams, bOrder, isPrivate) ==
    LET sortedQueryString == SortAndEncodeParams(queryParams, qOrder)
        fullURL == XtFullURL(baseURL, path, sortedQueryString)
        prepared == XtPrepareBody(bodyParams, bOrder)
        plain == SetHeader(IF prepared.contentType # <<>>
                           THEN SetHeader(NoHeaders, "Content-Type", prepared.contentType)
                           ELSE NoHeaders,
                           "Accept", <<"application/json">>)
        timestamp == XtTimestamp(now)
        sigQueryPart == XtSigQueryPart(method, sortedQueryString)
        signature == XtGenerateSignature(c, timestamp, path, sigQueryPart, prepared.forSig)
        authed == XtAuthHeaders(c, plain, timestamp, signature)
    IN  IF ~prepared.ok THEN Failed("marshal_error")
        ELSE IF method \notin ValidMethods THEN Failed("request_error")
        ELSE IF ~isPrivate
             THEN Built([method |-> method, url |-> fullURL, body |-> prepared.wire,
                         headers |-> plain], FALSE, NoSig)
        ELSE IF XtMissingCredentials(c) THEN Failed("config_error")
        ELSE Built([method |-> method, url |-> fullURL, body |-> prepared.wire,
                    headers |-> authed], TRUE,
                   [method |-> "", path |-> path, query |-> sigQueryPart,
                    body |-> prepared.forSig, timestamp |-> timestamp])

\* isPrivate set for every request
GateIsPrivateAlways(c) == TRUE

\* gateio sendRequest: isPrivate
GateIsPrivate(c) == c.apiKey # <<>> /\ c.secretKey # <<>>

\* gateio sendRequest: queryString
GateQueryString(queryParams, order) ==
    IF queryParams.isNil THEN <<>> ELSE ValuesEncode(queryParams, order)

\* the body prepared with the error of json.Marshal dropped
GatePrepareBodyIgnoreError(bodyPayload) ==
    [ok |-> TRUE, bodyBytes |-> <<>>, wire |-> <<>>]

\* gateio sendRequest, "Prepare Body": bodyBytes, and whether a body reader is set
GatePrepareBody(bodyPayload) ==
    IF bodyPayload.kind # "nil"
    THEN LET marshalled == JsonMarshal(bodyPayload.payload)
         IN  [ok |-> marshalled.ok, bodyBytes |-> marshalled.bytes, wire |-> marshalled.bytes]
    ELSE [ok |-> TRUE, bodyBytes |-> <<>>, wire |-> <<>>]

\* fmt.Sprintf("%d", time.Now().Unix())
GateTimestamp(now) == FormatInt(now \div 1000)

\* gateio sendRequest: the three req.Header.Set calls of the private branch
GateAuthHeaders(c, headers, timestamp, signature) ==
    SetHeader(SetHeader(SetHeader(headers,
        "KEY", c.apiKey),
        "Timestamp", timestamp),
        "SIGN", signature)

\* gateio Client.sendRequest up to the call of httpClient.Do
GateBuildRequest(c, now, method, endpointPath, queryParams, qOrder, bodyPayload) ==
    LET isPrivate == GateIsPrivate(c)
        queryString == GateQueryString(queryParams, qOrder)
        fullURL == c.baseURL \o apiPrefix \o endpointPath
                   \o (IF queryString # <<>> THEN <<"?">> \o queryString ELSE <<>>)
        prepared == GatePrepareBody(bodyPayload)
        accept == SetHeader(NoHeaders, "Accept", <<"application/json">>)
        plain == IF method = "POST" \/ method = "PUT" \/ method = "DELETE"
                 THEN SetHeader(accept, "Content-Type", <<"application/json">>)
                 ELSE accept
        timestamp == GateTimestamp(now)
        signature == GateGenerateSignature(c, method, apiPrefix \o endpointPath,
                                           queryString, prepared.bodyBytes, timestamp)
        authed == GateAuthHeaders(c, plain, timestamp, signature)
    IN  IF ~prepared.ok THEN Failed("marshal_error")
        ELSE IF ~isPrivate
             THEN Built([method |-> method, url |-> fullURL, body |-> prepared.wire,
                         headers |-> plain], FALSE, NoSig)
        ELSE IF c.apiKey = <<>> \/ c.secretKey = <<>> THEN Failed("config_error")
        ELSE Built([method |-> method, url |-> fullURL, body |-> prepared.wire,
                    headers |-> authed], TRUE,
                   [method |-> method, path |-> apiPrefix \o endpointPath,
                    query |-> queryString, body |-> prepared.bodyBytes,
                    timestamp |-> timestamp])

----------------------------------------------------------------------------
(* What the server receives *)

RECURSIVE IndexOf(_, _, _)
\* strings.Index from position i on; 0 when the token does not occur
IndexOf(s, tok, i) ==
    IF i > Len(s) THEN 0 ELSE IF s[i] = tok THEN i ELSE IndexOf(s, tok, i + 1)

\* the query component of a request URL: everything after the first "?"
URLQuery(u) ==
    LET q == IndexOf(u, "?", 1)
    IN  IF q = 0 THEN <<>> ELSE SubSeq(u, q + 1, Len(u))

\* the path component of a request URL: after the origin, up to the first "?"
URLPath(u) ==
    LET q == IndexOf(u, "?", 1)
    IN  IF q = 0 THEN SubSeq(u, 2, Len(u)) ELSE SubSeq(u, 2, q - 1)

----------------------------------------------------------------------------
(* Responses *)

\* what httpClient.Do and io.ReadAll hand back: a transport error (connection
\* failure, timeout, cancelled context), a body that cannot be read, or a
\* status with a body
NoResp == [transport |-> "none", status |-> 0, body |-> "none"]

TransportError == [transport |-> "error", status |-> 0, body |-> "none"]

ReadError(status) == [transport |-> "read_error", status |-> status, body |-> "none"]

Response(status, body) == [transport |-> "ok", status |-> status, body |-> body]

\* response bodies, by the JSON document they hold:
\*   gate_ok       {"user":1,"total":"1",...}, the document of a Gate.io result
\*   gate_err      {"label":"INVALID_PARAM","message":"foo"}
\*   xt_err        {"returnCode":1,"msgInfo":"bar"}
\*   xt_ok         {"returnCode":0,"msgInfo":"success","result":{...}}
\*   xt_badresult  {"returnCode":0,"result":"oops"}
\*   obj           {"id":1}
\*   gate_list     [{"name":"BTC_USDT",...}], the document of a Gate.io list result
\*   array         [1]
\*   garbage       <html>
Bodies == {"gate_ok", "gate_err", "xt_err", "xt_ok", "xt_badresult", "obj", "gate_list",
           "array", "garbage"}

JsonObjects == {"gate_ok", "gate_err", "xt_err", "xt_ok", "xt_badresult", "obj"}

\* json.Unmarshal(responseBody, &apiErr) into gateio.APIError
GateParseAPIError(body) ==
    CASE body = "gate_err"     -> [ok |-> TRUE, label |-> "INVALID_PARAM", message |-> "foo"]
      [] body \in JsonObjects  -> [ok |-> TRUE, label |-> "", message |-> ""]
      [] OTHER                 -> [ok |-> FALSE, label |-> "", message |-> ""]

\* json.Unmarshal(responseBody, &commonResp) into xt.CommonResponse
XtParseCommonResponse(body) ==
    CASE body = "xt_err"       -> [ok |-> TRUE, returnCode |-> 1, msgInfo |-> "bar"]
      [] body = "xt_ok"        -> [ok |-> TRUE, returnCode |-> 0, msgInfo |-> "success"]
      [] body \in JsonObjects  -> [ok |-> TRUE, returnCode |-> 0, msgInfo |-> ""]
      [] OTHER                 -> [ok |-> FALSE, returnCode |-> 0, msgInfo |-> ""]

\* the target a wrapper passes to sendRequest: nil, a pointer to a struct (a
\* FuturesAccount, an AccountInfoResult) or a pointer to a slice (a TickerResult)
NoTarget == "nil"

Targets == {"nil", "struct", "slice"}

\* json.Unmarshal(responseBody, target): "error" when the document is malformed
\* or a value has the wrong JSON type, "full" when the document is the one the
\* target describes, "zero" when the document is an object with none of the
\* struct's fields, which encoding/json accepts and which leaves every field
\* at its zero value
TargetFill(pkg, target, body) ==
    CASE target = "slice"                         ->
             IF pkg = "gateio" /\ body = "gate_list" THEN "full" ELSE "error"
      [] body \notin JsonObjects                  -> "error"
      [] pkg = "xt" /\ body = "xt_badresult"      -> "error"
      [] pkg = "gateio" /\ body = "gate_ok"       -> "full"
      [] pkg = "xt" /\ body = "xt_ok"             -> "full"
      [] OTHER                                    -> "zero"

\* err == nil after json.Unmarshal(responseBody, target)
TargetDecodes(pkg, target, body) == TargetFill(pkg, target, body) # "error"

\* how a call ended: the class of the error (or "ok"), what the error carries,
\* and what the target holds ("none": json.Unmarshal(responseBody, target) never
\* ran, "error": it ran and failed)
NoOutcome == [class |-> "none", status |-> 0, body |-> "none", label |-> "", message |-> "",
              code |-> 0, decoded |-> "none"]

Outcome(class, resp) == [NoOutcome EXCEPT !.class = class, !.status = resp.status,
                                          !.body = resp.body]

\* gateio Client.sendRequest from the call of httpClient.Do on
GateHandleResponse(resp, target) ==
    IF resp.transport = "error" THEN Outcome("transport_error", resp)
    ELSE IF resp.transport = "read_error" THEN Outcome("read_error", resp)
    ELSE IF resp.status >= 400
         THEN LET apiErr == GateParseAPIError(resp.body)
              IN  IF apiErr.ok /\ apiErr.label # ""
                  THEN [Outcome("api_error", resp) EXCEPT !.label = apiErr.label,
                                                          !.message = apiErr.message]
                  ELSE Outcome("generic_api_error", resp)
    ELSE IF target # NoTarget /\ ~TargetDecodes("gateio", target, resp.body)
         THEN [Outcome("decode_error", resp) EXCEPT !.decoded = "error"]
    ELSE IF target # NoTarget
         THEN [Outcome("ok", resp) EXCEPT !.decoded = TargetFill("gateio", target, resp.body)]
    ELSE Outcome("ok", resp)

\* the response handling with the target decoded before returnCode is looked at
XtHandleResponseDecodeFirst(resp, target) ==
    IF resp.transport = "error" THEN Outcome("transport_error", resp)
    ELSE IF resp.transport = "read_error" THEN Outcome("read_error", resp)
    ELSE LET commonResp == XtParseCommonResponse(resp.body)
         IN  IF ~commonResp.ok THEN Outcome("unmarshal_basic_error", resp)
             ELSE IF target # NoTarget /\ ~TargetDecodes("xt", target, resp.body)
                  THEN [Outcome("decode_error", resp) EXCEPT !.decoded = "error"]
             ELSE IF commonResp.returnCode # 0
                  THEN [Outcome("api_error", resp) EXCEPT
                            !.code = commonResp.returnCode, !.message = commonResp.msgInfo,
                            !.decoded = IF target # NoTarget
                                        THEN TargetFill("xt", target, resp.body)
                                        ELSE "none"]
             ELSE IF target # NoTarget
                  THEN [Outcome("ok", resp) EXCEPT !.decoded = TargetFill("xt", target, resp.body)]
             ELSE Outcome("ok", resp)

\* xt Client.sendRequest from the call of httpClient.Do on
XtHandleResponse(resp, target) ==
    IF resp.transport = "error" THEN Outcome("transport_error", resp)
    ELSE IF resp.transport = "read_error" THEN Outcome("read_error", resp)
    ELSE LET commonResp == XtParseCommonResponse(resp.body)
         IN  IF ~commonResp.ok THEN Outcome("unmarshal_basic_error", resp)
             ELSE IF commonResp.returnCode # 0
                  THEN [Outcome("api_error", resp) EXCEPT !.code = commonResp.returnCode,
                                                          !.message = commonResp.msgInfo]
             ELSE IF target # NoTarget /\ ~TargetDecodes("xt", target, resp.body)
                  THEN [Outcome("decode_error", resp) EXCEPT !.decoded = "error"]
             ELSE IF target # NoTarget
                  THEN [Outcome("ok", resp) EXCEPT !.decoded = TargetFill("xt", target, resp.body)]
             ELSE Outcome("ok", resp)

\* an endpoint wrapper that returns only an error has no result to return
NoReturn == [result |-> "none", err |-> "none"]

\* the wrapper that returns its result whatever sendRequest returned
WrapperReturnAlways(outcome, hasResult) ==
    [result |-> IF hasResult THEN "ptr" ELSE "none",
     err |-> IF outcome.class # "ok" THEN outcome.class ELSE "nil"]

\* the end of every endpoint wrapper: "if err != nil { return nil, err }" and
\* "return &result, nil"; hasResult tells a wrapper with a result struct from one
\* that passes a nil target and returns the error alone
WrapperReturn(outcome, hasResult) ==
    IF outcome.class # "ok"
    THEN [result |-> IF hasResult THEN "nil" ELSE "none", err |-> outcome.class]
    ELSE [result |-> IF hasResult THEN "ptr" ELSE "none", err |-> "nil"]

----------------------------------------------------------------------------
(* State *)

CallIds == {1, 2}

NoInput == [method |-> "", path |-> <<>>, baseURL |-> <<>>, query |-> NilParams,
            body |-> NilBody, private |-> FALSE, target |-> NoTarget]

\* the arguments of an endpoint wrapper that checks them; "none" for the others
NoArgs == [wrapper |-> "none"]

\* a call slot: the arguments of the call, the clock it read, the request it handed
\* to the transport, what it passed to generateSignature, how often it invoked
\* httpClient.Do, the response and its result, whether the context given to the
\* call is still live or done (cancelled, or past its deadline), and whether the
\* Timeout of the http.Client has elapsed for the request; args are the
\* arguments of the endpoint wrapper when the wrapper checks them
IdleCall == [pc |-> "idle", in |-> NoInput, req |-> NoReq, signed |-> FALSE, sig |-> NoSig,
             clockMs |-> 0, doCalls |-> 0, resp |-> NoResp, outcome |-> NoOutcome,
             ret |-> NoReturn, ctx |-> "live", timedOut |-> FALSE, args |-> NoArgs]

\* the thread that calls the setters of the client: between the call of a setter
\* and the completion of its store the field is being written
IdleSetter == [pc |-> "idle", field |-> "none", value |-> <<>>]

\* the clock at construction: two milliseconds before a second ends
ClockStarts == {1998}

Init ==
    /\ client \in {GateNewClient(k, s, NilHTTPClient) : k \in ApiKeys, s \in SecretKeys}
                  \cup {XtNewClient(k, s, NilHTTPClient) : k \in ApiKeys, s \in SecretKeys}
    /\ calls = [i \in CallIds |-> IdleCall]
    /\ nowMs \in ClockStarts
    /\ setter = IdleSetter

\* what a read of a string field returns while a store into it is under way and
\* nothing orders the two: the string header is two words (pointer, length), and
\* the reader may get the pointer of one value with the length of the other
TornString == <<"torn">>

\* the Client struct as a call reading it can find it: as it is, or, while a
\* setter is storing into a field, with that field old, new or torn
Seen ==
    IF setter.pc = "writing"
    THEN {client, [client EXCEPT ![setter.field] = setter.value],
                  [client EXCEPT ![setter.field] = TornString]}
    ELSE {client}

\* the call enters sendRequest and either returns early with an error or hands its
\* request to httpClient.Do (doCalls counts the invocations of Do) and waits
Enter(i, args, in, built) ==
    calls' = [calls EXCEPT ![i] =
                 IF built.err # ""
                 THEN [IdleCall EXCEPT !.pc = "done", !.args = args,
                                       !.in = in, !.clockMs = nowMs,
                                       !.outcome = [NoOutcome EXCEPT !.class = built.err],
                                       !.ret = WrapperReturn([NoOutcome EXCEPT !.class = built.err],
                                                             in.target # NoTarget)]
                 ELSE [IdleCall EXCEPT !.pc = "inflight", !.args = args,
                                       !.in = in, !.clockMs = nowMs,
                                       !.doCalls = 1,
                                       !.req = built.req, !.signed = built.signed,
                                       !.sig = built.sig]]

\* xt Client.sendRequest(ctx, method, baseURL, path, queryParams, bodyParams, isPrivate, target),
\* called for a wrapper call with the arguments args
XtSendRequestFor(i, args, method, baseURL, path, queryParams, bodyParams, isPrivate, target) ==
    /\ client.pkg = "xt"
    /\ calls[i].pc = "idle"
    /\ \E qOrder \in IterationOrders(DOMAIN queryParams.m),
          bOrder \in IterationOrders(DOMAIN bodyParams.form) :
          Enter(i, args,
                [method |-> method, path |-> path, baseURL |-> baseURL,
                    query |-> queryParams, body |-> bodyParams, private |-> isPrivate,
                    target |-> target],
                XtBuildRequest(client, nowMs, method, baseURL, path, queryParams, qOrder,
                               bodyParams, bOrder, isPrivate))
    /\ UNCHANGED <<client, nowMs, setter>>

\* xt Client.sendRequest(ctx, method, baseURL, path, queryParams, bodyParams, isPrivate, target)
XtSendRequest(i, method, baseURL, path, queryParams, bodyParams, isPrivate, target) ==
    XtSendRequestFor(i, NoArgs, method, baseURL, path, queryParams, bodyParams, isPrivate,
                     target)

\* xt Client.SendPublicRequest
XtSendPublicRequest(i, method, baseURL, path, params, target) ==
    XtSendRequest(i, method, baseURL, path, params, NilBody, FALSE, target)

\* xt Client.SendPrivateRequest
XtSendPrivateRequest(i, method, baseURL, path, queryParams, bodyParams, target) ==
    XtSendRequest(i, method, baseURL, path, queryParams, bodyParams, TRUE, target)

\* gateio Client.sendRequest(ctx, method, endpointPath, queryParams, bodyPayload, target),
\* called by the wrapper of the endpoint ep for a call with the arguments args
GateSendRequestFor(i, args, method, ep, queryParams, bodyPayload, target) ==
    /\ client.pkg = "gateio"
    /\ calls[i].pc = "idle"
    /\ \E c \in Seen, qOrder \in IterationOrders(DOMAIN queryParams.m) :
          Enter(i, args,
                [method |-> method, path |-> ep.path, baseURL |-> c.baseURL,
                    query |-> queryParams, body |-> bodyPayload, private |-> ep.private,
                    target |-> target],
                GateBuildRequest(c, nowMs, method, ep.path, queryParams, qOrder,
                                 bodyPayload))
    /\ UNCHANGED <<client, nowMs, setter>>

\* gateio Client.sendRequest, called by the wrapper of the endpoint ep
GateSendRequest(i, method, ep, queryParams, bodyPayload, target) ==
    GateSendRequestFor(i, NoArgs, method, ep, queryParams, bodyPayload, target)

\* sendRequest from the return of httpClient.Do to its own return
HandleResponse(resp, target) ==
    IF client.pkg = "gateio" THEN GateHandleResponse(resp, target)
    ELSE XtHandleResponse(resp, target)

\* a dispatcher that sends the request again after a transport error
DoRetry(i, resp) ==
    /\ calls[i].pc = "inflight"
    /\ calls' = [calls EXCEPT ![i] =
                    IF resp.transport = "error" /\ calls[i].doCalls < 2
                    THEN [@ EXCEPT !.doCalls = @ + 1]
                    ELSE [@ EXCEPT !.pc = "done", !.resp = resp,
                                   !.outcome = HandleResponse(resp, calls[i].in.target),
                                   !.ret = WrapperReturn(HandleResponse(resp, calls[i].in.target),
                                                         calls[i].in.target # NoTarget)]]
    /\ UNCHANGED <<client, nowMs, setter>>

\* a dispatcher that keeps the last response in a buffer shared by the calls of
\* the client: a call that ends after another one reads the other one's response
DoSharedBuffer(i, resp) ==
    /\ calls[i].pc = "inflight"
    /\ LET others == {k \in DOMAIN calls : k # i /\ calls[k].pc = "done"
                                           /\ calls[k].resp.transport # "none"}
           shared == IF others = {} THEN resp ELSE calls[CHOOSE k \in others : TRUE].resp
       IN  calls' = [calls EXCEPT ![i] =
                        [@ EXCEPT !.pc = "done", !.resp = resp,
                                  !.outcome = HandleResponse(shared, calls[i].in.target),
                                  !.ret = WrapperReturn(HandleResponse(shared, calls[i].in.target),
                                                        calls[i].in.target # NoTarget)]]
    /\ UNCHANGED <<client, nowMs, setter>>

\* httpClient.Do(req) returns, sendRequest runs to its end and the wrapper returns
Do(i, resp) ==
    /\ calls[i].pc = "inflight"
    /\ calls' = [calls EXCEPT ![i] =
                    [@ EXCEPT !.pc = "done", !.resp = resp,
                              !.outcome = HandleResponse(resp, calls[i].in.target),
                              !.ret = WrapperReturn(HandleResponse(resp, calls[i].in.target),
                                                    calls[i].in.target # NoTarget)]]
    /\ UNCHANGED <<client, nowMs, setter>>

\* the caller has its result; the slot is free for the next call
Return(i) ==
    /\ calls[i].pc = "done"
    /\ calls' = [calls EXCEPT ![i] = IdleCall]
    /\ UNCHANGED <<client, nowMs, setter>>

\* time passes
Tick ==
    /\ nowMs < MaxClockMs
    /\ nowMs' = nowMs + 1
    /\ UNCHANGED <<client, calls, setter>>

\* a transport whose requests are made without the context of the call
\* (http.NewRequest): only the Timeout of the client ends a request early
DeliveredWithoutContext(call, responses) ==
    IF call.timedOut THEN {r \in responses : r.transport # "ok"} ELSE responses

\* what httpClient.Do(req) and io.ReadAll(resp.Body) can hand back for a request
\* made with http.NewRequestWithContext(ctx, ...): once ctx is done, or the Timeout
\* of the client has elapsed, Do or the read of the body ends with an error
Delivered(call, responses) ==
    IF call.ctx = "done" \/ call.timedOut
    THEN {r \in responses : r.transport # "ok"}
    ELSE responses

\* the context given to the call is cancelled, or its deadline passes, while the
\* request is in flight
CancelContext(i) ==
    /\ calls[i].pc = "inflight"
    /\ calls[i].ctx = "live"
    /\ calls' = [calls EXCEPT ![i].ctx = "done"]
    /\ UNCHANGED <<client, nowMs, setter>>

\* the Timeout of c.httpClient elapses for the request in flight
ClientTimeout(i) ==
    /\ calls[i].pc = "inflight"
    /\ client.httpClient.Timeout > 0
    /\ ~calls[i].timedOut
    /\ calls' = [calls EXCEPT ![i].timedOut = TRUE]
    /\ UNCHANGED <<client, nowMs, setter>>

\* httpClient.Do and io.ReadAll return to the call one of the responses they can
Transport(i, responses) ==
    \E resp \in Delivered(calls[i], responses) : Do(i, resp)

\* the return of a request whose context is done or whose Timeout has elapsed
Abort(i, responses) ==
    /\ calls[i].ctx = "done" \/ calls[i].timedOut
    /\ Transport(i, responses)

----------------------------------------------------------------------------
(* Inputs of the specification *)

\* xt: methods a caller passes to SendPublicRequest / SendPrivateRequest
XtMethods == ValidMethods \cup {"BAD METHOD"}

XtPaths == {<<"/future/user/v1/account/info">>}

\* gateio: the helpers get, post, put, delete fix the method; get sends no body
GateMethods == ValidMethods

GateEndpoints == {[path |-> <<"/futures/usdt/accounts">>, private |-> TRUE],
                  [path |-> <<"/futures/usdt/contracts">>, private |-> FALSE]}

\* a call of sendRequest passes no target or a pointer to a struct
SpecTargets == {"nil", "struct"}

SpecResponses == {TransportError, Response(200, "xt_ok"), Response(400, "gate_err")}

\* a caller is about to call into the client of package pkg on slot i
Idle(i, pkg) == calls[i].pc = "idle" /\ client.pkg = pkg

Next ==
    \/ /\ Idle(1, "xt")
       /\ \E method \in XtMethods, ut \in UnderlyingTypes, path \in XtPaths,
             params \in XtParamInputs, target \in SpecTargets :
             XtSendPublicRequest(1, method, XtGetBaseURL(client, ut), path, params, target)
    \/ /\ Idle(1, "xt")
       /\ \E method \in XtMethods, ut \in UnderlyingTypes, path \in XtPaths,
             queryParams \in XtParamInputs, bodyParams \in XtBodyInputs, target \in SpecTargets :
             XtSendPrivateRequest(1, method, XtGetBaseURL(client, ut), path, queryParams,
                                  bodyParams, target)
    \/ /\ Idle(1, "gateio")
       /\ \E method \in GateMethods, ep \in GateEndpoints, queryParams \in GateParamInputs,
             bodyPayload \in GateBodyInputs, target \in SpecTargets :
             /\ method = "GET" => bodyPayload = NilBody
             /\ GateSendRequest(1, method, ep, queryParams, bodyPayload, target)
    \/ \E resp \in SpecResponses : Do(1, resp)
    \/ Return(1)
    \/ Tick

Spec == Init /\ [][Next]_vars

----------------------------------------------------------------------------
(* Endpoint wrappers and the responses of the exchange *)

\* gateio Client.GetFuturesAccount(ctx, "usdt")
GetFuturesAccount(i) ==
    GateSendRequest(i, "GET", [path |-> <<"/futures/usdt/accounts">>, private |-> TRUE],
                    NilParams, NilBody, "struct")

\* gateio Client.ListFuturesContracts(ctx, "usdt")
ListFuturesContracts(i) ==
    GateSendRequest(i, "GET", [path |-> <<"/futures/usdt/contracts">>, private |-> FALSE],
                    NilParams, NilBody, "slice")

\* gateio Client.SetCountdownCancelAll(ctx, "usdt", request): no target, the
\* wrapper returns the error alone
SetCountdownCancelAll(i) ==
    GateSendRequest(i, "POST",
                    [path |-> <<"/futures/usdt/countdown_cancel_all">>, private |-> TRUE],
                    NilParams, JsonBody("order"), NoTarget)

\* xt Client.GetAccountInfo(ctx)
GetAccountInfo(i) ==
    \E c \in Seen :
        XtSendPrivateRequest(i, "GET", XtGetBaseURL(c, "USDT-M"),
                             <<"/future/user/v1/account/info">>, NilParams, NilBody, "struct")

\* xt Client.GetServerTime(ctx)
GetServerTime(i) ==
    \E c \in Seen :
        XtSendPublicRequest(i, "GET", XtGetBaseURL(c, "USDT-M"),
                            <<"/future/market/v1/public/time">>, NilParams, "struct")

\* HTTP statuses of the responses: success, a status below 400 that is not a
\* success (300 is never followed by net/http), a client and a server error
Statuses == {200, 300, 400, 500}

RespResponses ==
    {TransportError, ReadError(200)} \cup {Response(st, b) : st \in Statuses, b \in Bodies}

RespNext ==
    \/ Idle(1, "gateio") /\ GetFuturesAccount(1)
    \/ Idle(1, "gateio") /\ ListFuturesContracts(1)
    \/ Idle(1, "gateio") /\ SetCountdownCancelAll(1)
    \/ Idle(1, "xt") /\ GetAccountInfo(1)
    \/ Idle(1, "xt") /\ GetServerTime(1)
    \/ \E resp \in RespResponses : Do(1, resp)
    \/ Return(1)

\* one wrapper call at a time, answered by every kind of response
RespSpec == Init /\ [][RespNext]_vars

----------------------------------------------------------------------------
(* Two calls on one client *)

\* xt Client.SetRecvWindow(ms)
SetRecvWindow(ms) ==
    /\ client.pkg = "xt"
    /\ client' = [client EXCEPT !.recvWindow = FormatInt(ms)]
    /\ UNCHANGED <<calls, nowMs, setter>>

RecvWindows == {1000}

\* the parameter maps of the two-call specification: at most the key a
PairMaps == {m \in FormMaps : DOMAIN m \subseteq {<<"a">>}}

PairValues == {m \in GateValues : DOMAIN m \subseteq {<<"a">>}}

PairMethods == {"GET", "POST"}

PairXtBodies == {NilBody, JsonBody("order")} \cup {FormBody(m) : m \in PairMaps}

PairGateBodies == {NilBody, JsonBody("order"), JsonBody("ids")}

PairNext ==
    \/ \E i \in CallIds :
          /\ Idle(i, "xt")
          /\ \E method \in PairMethods, path \in XtPaths, m \in PairMaps,
                bodyParams \in PairXtBodies :
                XtSendPrivateRequest(i, method, XtGetBaseURL(client, "USDT-M"), path,
                                     Params(m), bodyParams, NoTarget)
    \/ \E i \in CallIds :
          /\ Idle(i, "gateio")
          /\ \E method \in PairMethods, ep \in GateEndpoints, m \in PairValues,
                bodyPayload \in PairGateBodies :
                /\ ep.private
                /\ method = "GET" => bodyPayload = NilBody
                /\ GateSendRequest(i, method, ep, Params(m), bodyPayload, NoTarget)
    \/ \E i \in CallIds : Do(i, TransportError)
    \/ \E i \in CallIds : Return(i)
    \/ \E ms \in RecvWindows : SetRecvWindow(ms)
    \/ Tick

\* calls may overlap: both slots are in use
PairSpec == Init /\ [][PairNext]_vars

----------------------------------------------------------------------------
(* Setters called while calls are running *)

\* gateio Client.SetBaseURL(baseURL), up to the store into c.baseURL
SetBaseURL(baseURL) ==
    /\ client.pkg = "gateio"
    /\ setter.pc = "idle"
    /\ setter' = [pc |-> "writing", field |-> "baseURL", value |-> TrimSuffixSlash(baseURL)]
    /\ UNCHANGED <<client, calls, nowMs>>

\* xt Client.SetUsdtBaseURL(baseURL), up to the store into c.usdtBaseURL
SetUsdtBaseURL(baseURL) ==
    /\ client.pkg = "xt"
    /\ setter.pc = "idle"
    /\ setter' = [pc |-> "writing", field |-> "usdtBaseURL",
                  value |-> TrimSuffixSlash(baseURL)]
    /\ UNCHANGED <<client, calls, nowMs>>

\* xt Client.SetCoinBaseURL(baseURL), up to the store into c.coinBaseURL
SetCoinBaseURL(baseURL) ==
    /\ client.pkg = "xt"
    /\ setter.pc = "idle"
    /\ setter' = [pc |-> "writing", field |-> "coinBaseURL",
                  value |-> TrimSuffixSlash(baseURL)]
    /\ UNCHANGED <<client, calls, nowMs>>

\* a store that wipes the secret key as well
StoreAndForget ==
    /\ setter.pc = "writing"
    /\ client' = [client EXCEPT ![setter.field] = setter.value, !.secretKey = <<>>]
    /\ setter' = IdleSetter
    /\ UNCHANGED <<calls, nowMs>>

\* the store of the setter completes and the setter returns
Store ==
    /\ setter.pc = "writing"
    /\ client' = [client EXCEPT ![setter.field] = setter.value]
    /\ setter' = IdleSetter
    /\ UNCHANGED <<calls, nowMs>>

\* base URLs handed to the setters, with and without a trailing slash
ConcBaseURLs == {<<"https://test">>, <<"https://test", "/">>}

ConcMaps == {m \in FormMaps : m = EmptyMap \/ m = (<<"a">> :> <<"1">>)}

ConcValues == {m \in GateValues : m = EmptyMap \/ m = (<<"a">> :> << <<"1">> >>)}

ConcResponses == {TransportError, Response(400, "gate_err")}

ConcNext ==
    \/ \E i \in CallIds :
          /\ Idle(i, "xt")
          /\ \E c \in Seen, method \in PairMethods, path \in XtPaths, m \in ConcMaps :
                XtSendPrivateRequest(i, method, XtGetBaseURL(c, "USDT-M"), path,
                                     Params(m), NilBody, "struct")
    \/ \E i \in CallIds :
          /\ Idle(i, "gateio")
          /\ \E method \in PairMethods, ep \in GateEndpoints, m \in ConcValues :
                /\ ep.private
                /\ GateSendRequest(i, method, ep, Params(m), NilBody, "struct")
    \/ \E i \in CallIds, resp \in ConcResponses : Do(i, resp)
    \/ \E i \in CallIds : Return(i)
    \/ \E baseURL \in ConcBaseURLs : SetBaseURL(baseURL)
    \/ \E baseURL \in ConcBaseURLs : SetUsdtBaseURL(baseURL)
    \/ \E baseURL \in ConcBaseURLs : SetCoinBaseURL(baseURL)
    \/ setter.pc = "idle" /\ \E ms \in RecvWindows : SetRecvWindow(ms)
    \/ Store

\* calls and setters on one client from several threads
ConcSpec == Init /\ [][ConcNext]_vars

----------------------------------------------------------------------------
(* Endpoint wrappers that check their arguments *)

\* a *string argument: nil, or a pointer to the string s
NilStringPtr == [isNil |-> TRUE, s |-> <<>>]

StringPtr(s) == [isNil |-> FALSE, s |-> s]

\* the wrapper returns the error of its own check: nothing was built, and the
\* result is nil
Reject(i, args) ==
    /\ calls[i].pc = "idle"
    /\ calls' = [calls EXCEPT ![i] =
                    [IdleCall EXCEPT !.pc = "done", !.args = args,
                                     !.ret = [result |-> "nil", err |-> "arg_error"]]]
    /\ UNCHANGED <<client, nowMs, setter>>

\* gateio Client.ListFuturesOrders(ctx, "usdt", status, contract, nil, nil, nil, nil, nil)
ListFuturesOrders(i, status, contract) ==
    LET args == [wrapper |-> "ListFuturesOrders", status |-> status, contract |-> contract]
        params == IF contract.isNil THEN (<<"status">> :> <<status>>)
                  ELSE (<<"status">> :> <<status>>) @@ (<<"contract">> :> <<contract.s>>)
    IN  IF contract.isNil /\ status = <<"open">>
        THEN Reject(i, args)
        ELSE GateSendRequestFor(i, args, "GET",
                                [path |-> <<"/futures/usdt/orders">>, private |-> TRUE],
                                Params(params), NilBody, "slice")

\* PlaceOrder without its checks
PlaceOrderUnchecked(i, orderReq) ==
    XtSendRequestFor(i, [wrapper |-> "PlaceOrder", req |-> orderReq], "POST",
                     XtGetBaseURL(client, "USDT-M"), <<"/future/trade/v1/order/create">>,
                     NilParams, JsonBody("PlaceOrderRequest"), TRUE, "struct")

\* xt Client.PlaceOrder(ctx, orderReq)
PlaceOrder(i, orderReq) ==
    LET args == [wrapper |-> "PlaceOrder", req |-> orderReq]
    IN  IF \/ orderReq.symbol = <<>> \/ orderReq.orderSide = <<>> \/ orderReq.orderType = <<>>
           \/ orderReq.origQty = <<>> \/ orderReq.positionSide = <<>>
        THEN Reject(i, args)
        ELSE IF orderReq.orderType = <<"LIMIT">>
                /\ (orderReq.price.isNil \/ orderReq.price.s = <<>>)
        THEN Reject(i, args)
        ELSE XtSendRequestFor(i, args, "POST", XtGetBaseURL(client, "USDT-M"),
                              <<"/future/trade/v1/order/create">>, NilParams,
                              JsonBody("PlaceOrderRequest"), TRUE, "struct")

\* xt Client.PlaceBatchOrder(ctx, batchReq): the list goes out as the JSON text
\* of the form parameter "list"
PlaceBatchOrder(i, batchReq) ==
    LET args == [wrapper |-> "PlaceBatchOrder", list |-> batchReq.List]
        listJSON == JsonMarshal("[]PlaceOrderRequest")
    IN  IF Len(batchReq.List) = 0
        THEN Reject(i, args)
        ELSE XtSendRequestFor(i, args, "POST", XtGetBaseURL(client, "USDT-M"),
                              <<"/future/trade/v2/order/create-batch">>, NilParams,
                              FormBody(<<"list">> :> listJSON.bytes), TRUE, "struct")

\* xt Client.CreatePlanOrder(ctx, orderReq)
CreatePlanOrder(i, orderReq) ==
    LET args == [wrapper |-> "CreatePlanOrder", req |-> orderReq]
    IN  IF orderReq.entrustType \in {<<"TAKE_PROFIT">>, <<"STOP">>}
           /\ (orderReq.price.isNil \/ orderReq.price.s = <<>>)
        THEN Reject(i, args)
        ELSE XtSendRequestFor(i, args, "POST", XtGetBaseURL(client, "USDT-M"),
                              <<"/future/trade/v1/entrust/create-plan">>, NilParams,
                              JsonBody("CreatePlanOrderRequest"), TRUE, "struct")

\* xt Client.UpdatePositionMargin(ctx, symbol, margin, marginType, positionSide)
UpdatePositionMargin(i, symbol, margin, marginType, positionSide) ==
    LET args == [wrapper |-> "UpdatePositionMargin", marginType |-> marginType,
                 positionSide |-> positionSide]
        three == (<<"symbol">> :> symbol) @@ (<<"margin">> :> margin)
                 @@ (<<"type">> :> marginType)
        bodyParams == IF positionSide.isNil THEN three
                      ELSE three @@ (<<"positionSide">> :> positionSide.s)
    IN  IF marginType # <<"ADD">> /\ marginType # <<"SUB">>
        THEN Reject(i, args)
        ELSE XtSendRequestFor(i, args, "POST", XtGetBaseURL(client, "USDT-M"),
                              <<"/future/user/v1/position/margin">>, NilParams,
                              FormBody(bodyParams), TRUE, "struct")

\* the arguments the wrappers are called with
OrderStatuses == {<<"open">>, <<"finished">>}

Contracts == {NilStringPtr, StringPtr(<<"BTC_USDT">>)}

Prices == {NilStringPtr, StringPtr(<<>>), StringPtr(<<"2">>)}

PlaceOrderRequests ==
    [symbol : {<<>>, <<"btc_usdt">>}, orderSide : {<<>>, <<"BUY">>},
     orderType : {<<>>, <<"LIMIT">>, <<"MARKET">>}, origQty : {<<>>, <<"1">>},
     positionSide : {<<>>, <<"LONG">>}, price : Prices]

PlaceBatchOrderRequests == {[List |-> <<>>], [List |-> <<"order">>]}

CreatePlanOrderRequests ==
    [entrustType : {<<"TAKE_PROFIT">>, <<"STOP">>, <<"TAKE_PROFIT_MARKET">>, <<"STOP_MARKET">>},
     price : Prices, timeInForce : {<<"IOC">>, <<"GTC">>}]

MarginTypes == {<<"ADD">>, <<"SUB">>, <<"add">>, <<>>}

PositionSides == {NilStringPtr, StringPtr(<<"LONG">>)}

ArgResponses == {TransportError, Response(200, "gate_list"), Response(200, "xt_ok")}

ArgNext ==
    \/ /\ Idle(1, "gateio")
       /\ \E status \in OrderStatuses, contract \in Contracts :
             ListFuturesOrders(1, status, contract)
    \/ Idle(1, "xt") /\ \E orderReq \in PlaceOrderRequests : PlaceOrder(1, orderReq)
    \/ Idle(1, "xt") /\ \E batchReq \in PlaceBatchOrderRequests : PlaceBatchOrder(1, batchReq)
    \/ Idle(1, "xt") /\ \E orderReq \in CreatePlanOrderRequests : CreatePlanOrder(1, orderReq)
    \/ /\ Idle(1, "xt")
       /\ \E marginType \in MarginTypes, positionSide \in PositionSides :
             UpdatePositionMargin(1, <<"btc_usdt">>, <<"1">>, marginType, positionSide)
    \/ \E resp \in ArgResponses : Do(1, resp)
    \/ Return(1)

\* one call at a time of a wrapper that checks its arguments
ArgSpec == Init /\ [][ArgNext]_vars

----------------------------------------------------------------------------
(* Gate.io calls after SetBaseURL *)

\* base URLs handed to SetBaseURL: an origin alone, and an origin followed by a
\* path, as of a gateway that serves the API below a prefix
PathBaseURLs == {<<"https://test">>, <<"https://test", "/proxy">>}

PathResponses == {TransportError, Response(200, "gate_ok")}

PathNext ==
    \/ Idle(1, "gateio") /\ setter.pc = "idle" /\ GetFuturesAccount(1)
    \/ Idle(1, "gateio") /\ setter.pc = "idle" /\ SetCountdownCancelAll(1)
    \/ Idle(1, "gateio") /\ setter.pc = "idle" /\ ListFuturesContracts(1)
    \/ \E resp \in PathResponses : Do(1, resp)
    \/ Return(1)
    \/ \E baseURL \in PathBaseURLs : SetBaseURL(baseURL)
    \/ Store
    \/ Tick

\* one Gate.io wrapper call at a time on a client whose base URL is replaced
\* between calls, by the thread that makes the calls
PathSpec == Init /\ [][PathNext]_vars

----------------------------------------------------------------------------
(* Calls that are cancelled, time out or are never answered *)

\* the clients the constructors of the two packages make
Constructed ==
    {GateNewClient(k, s, h) : k \in ApiKeys, s \in SecretKeys, h \in HTTPClients}
    \cup {GateNew(k, s, h) : k \in ApiKeys, s \in SecretKeys, h \in HTTPClients}
    \cup {GateNewPublicOnly(h) : h \in HTTPClients}
    \cup {XtNewClient(k, s, h) : k \in ApiKeys, s \in SecretKeys, h \in HTTPClients}
    \cup {XtNew(k, s, h) : k \in ApiKeys, s \in SecretKeys, h \in HTTPClients}
    \cup {XtNewPublicOnly(h) : h \in HTTPClients}

LiveInit ==
    /\ client \in Constructed
    /\ calls = [i \in CallIds |-> IdleCall]
    /\ nowMs \in ClockStarts
    /\ setter = IdleSetter

LiveResponses ==
    {TransportError, ReadError(200), Response(200, "gate_ok"), Response(200, "xt_ok"),
     Response(400, "gate_err")}

LiveNext ==
    \/ Idle(1, "gateio") /\ GetFuturesAccount(1)
    \/ Idle(1, "gateio") /\ ListFuturesContracts(1)
    \/ Idle(1, "xt") /\ GetAccountInfo(1)
    \/ Idle(1, "xt") /\ GetServerTime(1)
    \/ CancelContext(1)
    \/ ClientTimeout(1)
    \/ Transport(1, LiveResponses)
    \/ Return(1)

\* one wrapper call at a time on a client of any constructor. The server may
\* never answer; time passes, so a Timeout that is set elapses, and net/http
\* returns from Do and from the read of the body once the context of the request
\* is done or the Timeout has elapsed
LiveSpec ==
    /\ LiveInit
    /\ [][LiveNext]_vars
    /\ WF_vars(ClientTimeout(1))
    /\ WF_vars(Abort(1, LiveResponses))

----------------------------------------------------------------------------
(* Vocabulary of the properties *)

\* the call on slot i has been made and has not yet been collected
Called(i) == calls[i].pc # "idle"

\* the request of the call on slot i was handed to httpClient.Do
Handed(i) == calls[i].doCalls > 0

\* the client lacks a credential
CredentialMissing == client.apiKey = <<>> \/ client.secretKey = <<>>

\* the body argument cannot be serialized
Unserializable(body) == body.kind = "json" /\ ~JsonMarshal(body.payload).ok

\* the keys of S in ascending byte order
Ascending(S) ==
    CHOOSE o \in IterationOrders(S) : \A n \in 1..(Cardinality(S) - 1) : StrLess(o[n], o[n + 1])

RECURSIVE SplitOn(_, _)
\* strings.Split(s, sep)
SplitOn(s, sep) ==
    LET at == IndexOf(s, sep, 1)
    IN  IF at = 0 THEN <<s>>
        ELSE <<SubSeq(s, 1, at - 1)>> \o SplitOn(SubSeq(s, at + 1, Len(s)), sep)

\* the keys of an encoded "k=v&k=v" string, in the order they are written
EncodedKeys(enc) ==
    IF enc = <<>> THEN <<>>
    ELSE LET pairs == SplitOn(enc, "&")
         IN  [n \in 1..Len(pairs) |-> SubSeq(pairs[n], 1, IndexOf(pairs[n], "=", 1) - 1)]

\* enc writes exactly the keys of the map m, in ascending order
KeySorted(enc, m) ==
    LET keys == EncodedKeys(enc)
    IN  /\ {keys[n] : n \in 1..Len(keys)} = {QueryEscape(k) : k \in DOMAIN m}
        /\ \A n \in 1..(Len(keys) - 1) : StrLess(keys[n], keys[n + 1]) \/ keys[n] = keys[n + 1]
        /\ (DOMAIN m = {}) => enc = <<>>

\* the body a caller expects on the wire for a body argument
ExpectedBody(body) ==
    CASE body.kind = "nil"  -> <<>>
      [] body.kind = "form" -> EncodePairs(Ascending(DOMAIN body.form), body.form)
      [] OTHER              -> JsonMarshal(body.payload).bytes

\* "#" and the segment, or nothing for an empty segment
Segment(seg) == IF seg = <<>> THEN <<>> ELSE <<"#">> \o seg

GateAuthNames == {"KEY", "Timestamp", "SIGN"}

XtAuthNames == {"validate-appkey", "validate-timestamp", "validate-signature"}

AuthNames == IF client.pkg = "gateio" THEN GateAuthNames ELSE XtAuthNames

\* the request of the call on slot i carries authentication headers
Authenticated(i) == Handed(i) /\ AuthNames \subseteq DOMAIN calls[i].req.headers

----------------------------------------------------------------------------
(* Properties of the credential check *)

\* C1 as stated: on an XT client that lacks a credential every call through
\* SendPrivateRequest returns the configuration error and never invokes Do.
C1_Original ==
    \A i \in CallIds :
        (client.pkg = "xt" /\ Called(i) /\ calls[i].in.private /\ CredentialMissing)
        => /\ calls[i].pc = "done"
           /\ calls[i].outcome.class = "config_error"
           /\ calls[i].doCalls = 0

\* C1 as amended: on an XT client that lacks a credential every call through
\* SendPrivateRequest returns an error without ever invoking Do; the error is
\* the configuration error unless the body does not serialize or the request
\* cannot be constructed, which sendRequest reports first.
C1_XtPrivateNeverSent ==
    \A i \in CallIds :
        (client.pkg = "xt" /\ Called(i) /\ calls[i].in.private /\ CredentialMissing)
        => /\ calls[i].pc = "done"
           /\ calls[i].doCalls = 0
           /\ calls[i].outcome.class =
                  (IF Unserializable(calls[i].in.body) THEN "marshal_error"
                   ELSE IF calls[i].in.method \notin ValidMethods THEN "request_error"
                   ELSE "config_error")

\* an XT private call on a client holding only its apiKey ended in the configuration error
C1_Witness ==
    /\ client.pkg = "xt" /\ client.apiKey # <<>> /\ client.secretKey = <<>>
    /\ calls[1].pc = "done" /\ calls[1].in.private
    /\ calls[1].outcome.class = "config_error" /\ calls[1].doCalls = 0

\* C2: on a Gate.io client that lacks a credential a call to a private endpoint
\* wrapper returns the configuration error and never invokes Do.
C2_GatePrivateFailsFast ==
    \A i \in CallIds :
        (client.pkg = "gateio" /\ Called(i) /\ calls[i].in.private /\ CredentialMissing)
        => /\ calls[i].pc = "done"
           /\ calls[i].outcome.class = "config_error"
           /\ calls[i].doCalls = 0

----------------------------------------------------------------------------
(* What is signed is what is sent *)

\* C3: the body of every authenticated request is the body string given to
\* generateSignature: the JSON marshalling of the payload, the key-sorted form
\* encoding of an XT form map, the empty string without a body.
C3_BodySentIsBodySigned ==
    \A i \in CallIds :
        Authenticated(i)
        => /\ calls[i].signed
           /\ calls[i].req.body = calls[i].sig.body
           /\ calls[i].req.body = ExpectedBody(calls[i].in.body)

\* an authenticated XT request with a two-key form body is in flight
C3_Witness ==
    /\ client.pkg = "xt" /\ Authenticated(1)
    /\ calls[1].in.body.kind = "form" /\ Cardinality(DOMAIN calls[1].in.body.form) = 2
    /\ calls[1].req.body = <<"a", "=", "%", "2", "6", "&", "b", "=", "2">>

\* C4 as stated: for every authenticated request, whatever the method, the query
\* string of the transmitted URL is the query string that was signed.
C4_Original ==
    \A i \in CallIds :
        Authenticated(i) => URLQuery(calls[i].req.url) = calls[i].sig.query

\* C4 as amended: the query string of the transmitted URL is the one that was
\* signed for every authenticated Gate.io request and for every authenticated XT
\* request that is a GET or a DELETE or has no query; an XT request of another
\* method signs no query at all.
C4_QuerySentIsQuerySigned ==
    \A i \in CallIds :
        Authenticated(i)
        => IF client.pkg = "gateio" \/ calls[i].req.method \in {"GET", "DELETE"}
           THEN URLQuery(calls[i].req.url) = calls[i].sig.query
           ELSE calls[i].sig.query = <<>>

\* an authenticated XT DELETE with a query is in flight, its query signed as sent
C4_Witness ==
    /\ client.pkg = "xt" /\ Authenticated(1) /\ calls[1].req.method = "DELETE"
    /\ URLQuery(calls[1].req.url) # <<>>
    /\ URLQuery(calls[1].req.url) = calls[1].sig.query

----------------------------------------------------------------------------
(* The signing strings *)

\* C6: the SIGN header of a Gate.io request is the hex HMAC-SHA512, under the
\* secret key, of METHOD LF PATH LF QUERY LF hex(SHA512(body)) LF TIMESTAMP with
\* PATH starting with /api/v4 and TIMESTAMP in unix seconds; without a body the
\* hash segment is the SHA-512 of the zero-length byte sequence.
C6_GateSigningString ==
    \A i \in CallIds :
        (client.pkg = "gateio" /\ Authenticated(i))
        => calls[i].req.headers["SIGN"] =
               <<"hmac-", "sha512", "(">> \o client.secretKey \o <<",">>
               \o <<calls[i].in.method, "\n", "/api/v4">> \o calls[i].in.path
               \o <<"\n">> \o URLQuery(calls[i].req.url)
               \o <<"\n", "sha512(">> \o ExpectedBody(calls[i].in.body) \o <<")">>
               \o <<"\n">> \o FormatInt(calls[i].clockMs \div 1000)
               \o <<")">>

\* an authenticated Gate.io request without a body, signed at second 2
C6_Witness ==
    /\ client.pkg = "gateio" /\ Authenticated(1)
    /\ calls[1].in.body.kind = "nil" /\ calls[1].req.body = <<>>
    /\ calls[1].req.headers["Timestamp"] = <<"2">>
    /\ calls[1].req.headers["SIGN"] =
           <<"hmac-", "sha512", "(", "S", ",", "GET", "\n", "/api/v4", "/futures/usdt/accounts",
             "\n", "\n", "sha512(", ")", "\n", "2", ")">>

\* C7: the validate-signature header of an XT request is the hex HMAC-SHA256,
\* under the secret key, of validate-appkey=<key>&validate-timestamp=<ts> (ts in
\* unix milliseconds) followed by #path, then #query only for a GET or DELETE
\* with a query, then #body only for a non-empty body.
C7_XtSigningString ==
    \A i \in CallIds :
        (client.pkg = "xt" /\ Authenticated(i))
        => calls[i].req.headers["validate-signature"] =
               <<"hmac-", "sha256", "(">> \o client.secretKey \o <<",">>
               \o <<"validate-appkey=">> \o client.apiKey
               \o <<"&validate-timestamp=">> \o FormatInt(calls[i].clockMs)
               \o <<"#">> \o calls[i].in.path
               \o (IF calls[i].in.method \in {"GET", "DELETE"}
                   THEN Segment(URLQuery(calls[i].req.url)) ELSE <<>>)
               \o Segment(ExpectedBody(calls[i].in.body))
               \o <<")">>

\* an authenticated XT POST with a query and no body: neither segment is signed
C7_Witness ==
    /\ client.pkg = "xt" /\ Authenticated(1) /\ calls[1].req.method = "POST"
    /\ URLQuery(calls[1].req.url) # <<>> /\ calls[1].req.body = <<>>
    /\ calls[1].req.headers["validate-signature"] =
           <<"hmac-", "sha256", "(", "S", ",", "validate-appkey=", "K",
             "&validate-timestamp=", "2", "0", "0", "0",
             "#", "/future/user/v1/account/info", ")">>

\* C8: whatever order the map iteration yields, the encoded query of the URL and
\* of the signature, and an XT form body, list the keys of the map in ascending
\* order joined by "&"; {b: 2, a: 1} gives a=1&b=2, an empty or nil map gives "".
C8_KeysSorted ==
    \A i \in CallIds :
        Handed(i)
        => /\ KeySorted(URLQuery(calls[i].req.url), calls[i].in.query.m)
           /\ calls[i].signed /\ calls[i].sig.query # <<>>
              => KeySorted(calls[i].sig.query, calls[i].in.query.m)
           /\ calls[i].in.body.kind = "form"
              => /\ KeySorted(calls[i].req.body, calls[i].in.body.form)
                 /\ calls[i].signed => KeySorted(calls[i].sig.body, calls[i].in.body.form)
           /\ (client.pkg = "xt" /\ calls[i].in.query.m = (<<"b">> :> <<"2">>) @@ (<<"a">> :> <<"1">>))
              => URLQuery(calls[i].req.url) = <<"a", "=", "1", "&", "b", "=", "2">>
           /\ (client.pkg = "gateio"
               /\ calls[i].in.query.m = (<<"b">> :> << <<"2">> >>) @@ (<<"a">> :> << <<"1">> >>))
              => URLQuery(calls[i].req.url) = <<"a", "=", "1", "&", "b", "=", "2">>

\* a signed XT GET built from the map {b: 2, a: 1}
C8_Witness ==
    /\ client.pkg = "xt" /\ Authenticated(1) /\ calls[1].req.method = "GET"
    /\ calls[1].in.query.m = (<<"b">> :> <<"2">>) @@ (<<"a">> :> <<"1">>)
    /\ calls[1].sig.query = <<"a", "=", "1", "&", "b", "=", "2">>

----------------------------------------------------------------------------
(* The authentication headers *)

\* C10: a Gate.io request carries KEY, Timestamp and SIGN exactly when both
\* credentials are non-empty, an XT request carries validate-appkey,
\* validate-timestamp and validate-signature exactly when it is private; the
\* key header is the client's apiKey, the timestamp header is the timestamp
\* that was signed, and the signature header is the signer's output for the
\* request's method, path, query and body.
C10_AuthHeaders ==
    \A i \in CallIds :
        Handed(i)
        => LET r == calls[i].req
               h == r.headers
           IN  /\ AuthNames \subseteq DOMAIN h \/ AuthNames \cap DOMAIN h = {}
               /\ client.pkg = "gateio" => (Authenticated(i) <=> ~CredentialMissing)
               /\ client.pkg = "xt" => (Authenticated(i) <=> calls[i].in.private)
               /\ (client.pkg = "gateio" /\ Authenticated(i))
                  => /\ h["KEY"] = client.apiKey
                     /\ h["Timestamp"] = calls[i].sig.timestamp
                     /\ h["Timestamp"] = FormatInt(calls[i].clockMs \div 1000)
                     /\ h["SIGN"] = GateGenerateSignature(client, r.method,
                                                          <<"/api/v4">> \o calls[i].in.path,
                                                          URLQuery(r.url), r.body, h["Timestamp"])
               /\ (client.pkg = "xt" /\ Authenticated(i))
                  => /\ h["validate-appkey"] = client.apiKey
                     /\ h["validate-timestamp"] = calls[i].sig.timestamp
                     /\ h["validate-timestamp"] = FormatInt(calls[i].clockMs)
                     /\ h["validate-signature"] =
                            XtGenerateSignature(client, h["validate-timestamp"], calls[i].in.path,
                                                IF r.method \in {"GET", "DELETE"}
                                                THEN URLQuery(r.url) ELSE <<>>,
                                                r.body)

\* a private XT request was handed to the transport with its three headers
C10_Witness ==
    /\ client.pkg = "xt" /\ Authenticated(1) /\ calls[1].in.private
    /\ calls[1].req.headers["validate-appkey"] = <<"K">>
    /\ calls[1].req.headers["validate-timestamp"] = <<"1", "9", "9", "9">>

----------------------------------------------------------------------------
(* Two requests compared (specification PairSpec) *)

\* the requests on slots i and j are authenticated and agree in method, path and timestamp
Comparable(i, j) ==
    /\ i # j /\ Authenticated(i) /\ Authenticated(j)
    /\ calls[i].in.method = calls[j].in.method
    /\ calls[i].in.path = calls[j].in.path
    /\ calls[i].sig.timestamp = calls[j].sig.timestamp

\* only the transmitted query strings differ
QueryDiffers(i, j) ==
    /\ URLQuery(calls[i].req.url) # URLQuery(calls[j].req.url)
    /\ calls[i].req.body = calls[j].req.body

\* only the transmitted bodies differ
BodyDiffers(i, j) ==
    /\ calls[i].req.body # calls[j].req.body
    /\ URLQuery(calls[i].req.url) = URLQuery(calls[j].req.url)

\* the signature header
Signature(i) ==
    calls[i].req.headers[IF client.pkg = "gateio" THEN "SIGN" ELSE "validate-signature"]

\* C5 as stated: with everything else fixed, two private requests whose query
\* strings differ, or whose bodies differ, get different signatures, for every method.
C5_Original ==
    \A i, j \in CallIds :
        (Comparable(i, j) /\ (QueryDiffers(i, j) \/ BodyDiffers(i, j)))
        => Signature(i) # Signature(j)

\* C5 as amended: with everything else fixed, two private requests whose bodies
\* differ get different signatures, for every method on both clients; two whose
\* query strings differ get different signatures on Gate.io for every method and
\* on XT for GET and DELETE, while XT requests of another method that differ only
\* in the query get the same signature.
C5_SignatureSeparates ==
    \A i, j \in CallIds :
        Comparable(i, j)
        => /\ BodyDiffers(i, j) => Signature(i) # Signature(j)
           /\ QueryDiffers(i, j)
              => IF client.pkg = "gateio" \/ calls[i].in.method \in {"GET", "DELETE"}
                 THEN Signature(i) # Signature(j)
                 ELSE Signature(i) = Signature(j)

\* two XT GETs in flight that differ only in the query, and are signed differently
C5_Witness ==
    /\ client.pkg = "xt" /\ Comparable(1, 2) /\ QueryDiffers(1, 2)
    /\ calls[1].in.method = "GET"
    /\ Signature(1) # Signature(2)

----------------------------------------------------------------------------
(* Public calls *)

\* C11: a public call is never rejected with the configuration error; with a
\* valid method and a serializable body it is handed to the transport, without
\* any authentication header on a client built by NewPublicOnly, and without
\* any on XT whatever credentials the client holds.
C11_PublicWithoutCredentials ==
    \A i \in CallIds :
        (Called(i) /\ ~calls[i].in.private)
        => /\ calls[i].outcome.class # "config_error"
           /\ (calls[i].in.method \in ValidMethods /\ ~Unserializable(calls[i].in.body))
              => Handed(i)
           /\ (Handed(i) /\ (client.pkg = "xt"
                             \/ (client.apiKey = <<>> /\ client.secretKey = <<>>)))
              => AuthNames \cap DOMAIN calls[i].req.headers = {}

\* an XT client holding both credentials has a public request in flight that
\* carries no authentication header
C11_Witness ==
    /\ client.pkg = "xt" /\ ~CredentialMissing
    /\ calls[1].pc = "inflight" /\ ~calls[1].in.private
    /\ XtAuthNames \cap DOMAIN calls[1].req.headers = {}

----------------------------------------------------------------------------
(* Responses (specification RespSpec) *)

\* the call on slot i has returned
Done(i) == calls[i].pc = "done"

\* the call on slot i got a response with a status and a body
Answered(i) == Done(i) /\ calls[i].resp.transport = "ok"

\* a success (2xx) status
SuccessStatus(st) == st \in 200..299

\* C12: on Gate.io a response whose status is not a 2xx status ends the call
\* in an APIError with the body's label and message when the body parses with a
\* non-empty label, otherwise in a generic error with the status and the raw
\* body; the target is never decoded.
C12_GateNonSuccessIsError ==
    \A i \in CallIds :
        (client.pkg = "gateio" /\ Answered(i) /\ ~SuccessStatus(calls[i].resp.status))
        => LET apiErr == GateParseAPIError(calls[i].resp.body)
               o == calls[i].outcome
           IN  /\ o.decoded = "none"
               /\ IF apiErr.ok /\ apiErr.label # ""
                  THEN o.class = "api_error" /\ o.label = apiErr.label
                       /\ o.message = apiErr.message
                  ELSE o.class = "generic_api_error" /\ o.status = calls[i].resp.status
                       /\ o.body = calls[i].resp.body

\* C13: on XT a response whose status is not a 2xx status never ends the call
\* in success: the call returns an error and no result.
C13_XtNonSuccessIsError ==
    \A i \in CallIds :
        (client.pkg = "xt" /\ Answered(i) /\ ~SuccessStatus(calls[i].resp.status))
        => /\ calls[i].outcome.class # "ok"
           /\ calls[i].ret.err # "nil"
           /\ calls[i].ret.result # "ptr"

\* C14: on XT a body that parses with a returnCode other than 0 ends the call
\* in an error carrying that code and msgInfo, the target undecoded and no
\* result returned; a call ends in success only if the body parsed with returnCode 0.
C14_XtReturnCode ==
    \A i \in CallIds :
        (client.pkg = "xt" /\ Answered(i))
        => LET commonResp == XtParseCommonResponse(calls[i].resp.body)
               o == calls[i].outcome
           IN  /\ (commonResp.ok /\ commonResp.returnCode # 0)
                  => /\ o.class = "api_error"
                     /\ o.code = commonResp.returnCode /\ o.message = commonResp.msgInfo
                     /\ o.decoded = "none"
                     /\ calls[i].ret.result # "ptr" /\ calls[i].ret.err = "api_error"
               /\ calls[i].resp.body = "xt_err" => (o.code = 1 /\ o.message = "bar")
               /\ o.class = "ok" => (commonResp.ok /\ commonResp.returnCode = 0)

\* GetAccountInfo was answered 200 {"returnCode":1,"msgInfo":"bar"} and returned
\* that code and message
C14_Witness ==
    /\ client.pkg = "xt" /\ Done(1) /\ calls[1].in.private
    /\ calls[1].resp = Response(200, "xt_err")
    /\ calls[1].outcome.class = "api_error"
    /\ calls[1].outcome.code = 1 /\ calls[1].outcome.message = "bar"

\* C15: a 2xx response whose body is not the document the caller's target
\* describes never ends the call in success, so no zero-valued result is returned.
C15_MismatchIsDecodeError ==
    \A i \in CallIds :
        (Answered(i) /\ SuccessStatus(calls[i].resp.status) /\ calls[i].in.target # NoTarget
         /\ TargetFill(client.pkg, calls[i].in.target, calls[i].resp.body) # "full")
        => /\ calls[i].outcome.class # "ok"
           /\ calls[i].ret.result # "ptr"

\* C16: a call invokes httpClient.Do at most once: once when its request was
\* handed to the transport, whatever the response, and never when it failed before.
C16_AtMostOneDo ==
    \A i \in CallIds :
        /\ calls[i].doCalls <= 1
        /\ calls[i].pc = "inflight" => calls[i].doCalls = 1
        /\ Done(i) => (calls[i].doCalls = 1 <=> calls[i].resp # NoResp)
        /\ Done(i) => (calls[i].doCalls = 0
                       <=> calls[i].outcome.class \in {"marshal_error", "request_error",
                                                       "config_error"})

\* a call whose transport failed has returned after a single Do
C16_Witness ==
    /\ Done(1) /\ calls[1].resp = TransportError
    /\ calls[1].outcome.class = "transport_error" /\ calls[1].doCalls = 1

\* the four kinds of terminal outcome
Success(o) == o.class = "ok"

Rejected(o) == o.class \in {"api_error", "generic_api_error"}

FailedIO(o) == o.class \in {"transport_error", "read_error", "unmarshal_basic_error",
                            "decode_error"}

BeforeIO(o) == o.class \in {"marshal_error", "request_error", "config_error"}

\* C17: a call that has returned ended in exactly one of success, exchange
\* rejection, transport or decode failure, or an error raised before network
\* I/O; a wrapper with a result returns a non-nil result exactly when it
\* returns a nil error, which is exactly when the call succeeded; a call that
\* has not returned has returned nothing.
C17_OneOutcome ==
    \A i \in CallIds :
        LET o == calls[i].outcome
        IN  /\ Done(i)
               => /\ Cardinality({k \in 1..4 : <<Success(o), Rejected(o), FailedIO(o),
                                                BeforeIO(o)>>[k]}) = 1
                  /\ BeforeIO(o) <=> calls[i].doCalls = 0
                  /\ calls[i].ret.err = "nil" <=> Success(o)
                  /\ calls[i].in.target # NoTarget
                     => /\ calls[i].ret.result \in {"ptr", "nil"}
                        /\ calls[i].ret.result = "ptr" <=> calls[i].ret.err = "nil"
            /\ ~Done(i) => (calls[i].ret = NoReturn /\ o = NoOutcome)

\* GetFuturesAccount returned a result and a nil error after a 200 response
C17_Witness ==
    /\ client.pkg = "gateio" /\ Done(1) /\ calls[1].in.target = "struct"
    /\ calls[1].resp = Response(200, "gate_ok")
    /\ calls[1].ret = [result |-> "ptr", err |-> "nil"]

----------------------------------------------------------------------------
(* The configuration of a client (specification ConcSpec) *)

\* the base URL fields of the client
BaseURLFields == {"baseURL", "usdtBaseURL", "coinBaseURL"}

Alone(i) ==
    LET in == calls[i].in
    IN  IF client.pkg = "gateio"
        THEN GateBuildRequest([client EXCEPT !.baseURL = in.baseURL], calls[i].clockMs,
                              in.method, in.path, in.query, Ascending(DOMAIN in.query.m),
                              in.body)
        ELSE XtBuildRequest(client, calls[i].clockMs, in.method, in.baseURL, in.path,
                            in.query, Ascending(DOMAIN in.query.m),
                            in.body, Ascending(DOMAIN in.body.form), in.private)

FieldsRead == IF client.pkg = "gateio" THEN {"baseURL"} ELSE {"usdtBaseURL"}

\* C20: no call reads a field of the client while a setter is storing into it.
C20_NoWriteDuringRead ==
    [][\A i \in CallIds :
          (calls[i].pc = "idle" /\ calls'[i].pc # "idle")
          => ~(setter.pc = "writing" /\ setter.field \in FieldsRead)]_vars

----------------------------------------------------------------------------
(* C21 *)

\* C21: once the context of a call is cancelled or past its deadline while the
\* request is in flight, the call ends, and it ends with the error of the
\* transport (the error of Do or of the read of the body), never with success
C21_CancelledCallFails ==
    \A i \in CallIds :
        /\ [](Done(i) /\ calls[i].ctx = "done"
                 => /\ calls[i].outcome.class \in {"transport_error", "read_error"}
                    /\ calls[i].ret.err \in {"transport_error", "read_error"}
                    /\ calls[i].ret.result # "ptr")
        /\ (calls[i].pc = "inflight" /\ calls[i].ctx = "done") ~> Done(i)

C21_Witness ==
    \E i \in CallIds :
        /\ Done(i)
        /\ calls[i].ctx = "done"
        /\ ~calls[i].timedOut
        /\ calls[i].outcome.class = "transport_error"

----------------------------------------------------------------------------
(* C22 *)

\* a client made by a constructor that was given a nil httpClient
BuiltWithNil == client.httpClient.id \in {"DefaultHTTPClient", "NewClient"}

\* C22: every constructor given nil installs an http.Client with the 10-second
\* Timeout and given a client installs that client; every call on a client made
\* with nil ends, whatever the server and the context do
C22_DefaultClientTerminates ==
    /\ [](\A k \in ApiKeys, s \in SecretKeys :
             /\ \A c \in {GateNewClient(k, s, NilHTTPClient), GateNew(k, s, NilHTTPClient),
                            GateNewPublicOnly(NilHTTPClient),
                            XtNewClient(k, s, NilHTTPClient), XtNew(k, s, NilHTTPClient),
                            XtNewPublicOnly(NilHTTPClient)} :
                    c.httpClient.Timeout = 10
             /\ \A h \in SuppliedHTTPClients :
                    \A c \in {GateNewClient(k, s, h), GateNew(k, s, h), GateNewPublicOnly(h),
                               XtNewClient(k, s, h), XtNew(k, s, h), XtNewPublicOnly(h)} :
                        c.httpClient = h)
    /\ [](BuiltWithNil => client.httpClient.Timeout = 10)
    /\ \A i \in CallIds : (BuiltWithNil /\ calls[i].pc = "inflight") ~> Done(i)

C22_Witness ==
    \E i \in CallIds :
        /\ BuiltWithNil
        /\ Done(i)
        /\ calls[i].timedOut
        /\ calls[i].ctx = "live"
        /\ calls[i].outcome.class = "transport_error"

----------------------------------------------------------------------------
(* C23 *)

\* the timestamp header of the request on slot i
TimestampOf(i) ==
    calls[i].req.headers[IF client.pkg = "gateio" THEN "Timestamp" ELSE "validate-timestamp"]

\* the clock a call read, in the unit of the timestamp of its exchange: unix
\* seconds for Gate.io, unix milliseconds for XT
ClockUnits(i) == IF client.pkg = "gateio" THEN calls[i].clockMs \div 1000 ELSE calls[i].clockMs

\* the fields of the Client struct, none of which holds a timestamp or a signature
ClientFields ==
    {"pkg", "apiKey", "secretKey", "baseURL", "usdtBaseURL", "coinBaseURL", "recvWindow",
     "httpClient"}

\* C23 as stated: two authenticated calls made at different clock values carry
\* different timestamp headers.
C23_Original ==
    \A i, j \in CallIds :
        (Authenticated(i) /\ Authenticated(j) /\ calls[i].clockMs # calls[j].clockMs)
        => TimestampOf(i) # TimestampOf(j)

\* C23, amended: the timestamp header of every authenticated request is the
\* clock read during that call, in unix seconds (Gate.io) or milliseconds (XT),
\* the signer is given that same timestamp, and the client has no field that
\* could keep either; two calls carry different timestamp headers exactly when
\* their clock values differ in that unit, so two Gate.io calls within one
\* second carry the same one.
C23_TimestampFresh ==
    /\ DOMAIN client = ClientFields
    /\ \A i \in CallIds :
           Authenticated(i)
           => /\ TimestampOf(i) = FormatInt(ClockUnits(i))
              /\ calls[i].sig.timestamp = TimestampOf(i)
    /\ \A i, j \in CallIds :
           (Authenticated(i) /\ Authenticated(j))
           => (TimestampOf(i) # TimestampOf(j) <=> ClockUnits(i) # ClockUnits(j))

\* two authenticated calls in flight that read the clock at different
\* milliseconds, the second after the first, with different timestamp headers
C23_Witness ==
    /\ Authenticated(1) /\ Authenticated(2)
    /\ calls[1].clockMs < calls[2].clockMs
    /\ TimestampOf(1) # TimestampOf(2)
    /\ TimestampOf(2) = FormatInt(ClockUnits(2))

----------------------------------------------------------------------------
(* C24 *)

\* a payload json.Marshal rejects: a value that holds a channel
NotJson(body) == body.kind = "json" /\ body.payload = "chan"

\* C24: on both clients a call whose payload cannot be serialized to JSON returns
\* the serialization error, has built no request and has never invoked the
\* transport.
C24_MarshalErrorBeforeTransport ==
    \A i \in CallIds :
        (Called(i) /\ NotJson(calls[i].in.body))
        => /\ calls[i].pc = "done"
           /\ calls[i].outcome.class = "marshal_error"
           /\ calls[i].ret.err = "marshal_error"
           /\ calls[i].ret.result # "ptr"
           /\ calls[i].doCalls = 0
           /\ calls[i].req = NoReq
           /\ calls[i].resp = NoResp

\* a private call with credentials and a valid method whose only fault is its payload
C24_Witness ==
    \E i \in CallIds :
        /\ Called(i) /\ NotJson(calls[i].in.body)
        /\ calls[i].in.private /\ ~CredentialMissing
        /\ calls[i].in.method = "POST"
        /\ calls[i].outcome.class = "marshal_error"
        /\ calls[i].doCalls = 0

----------------------------------------------------------------------------
(* C25 *)

\* C25: the body and the Content-Type header of an XT request are determined by
\* the body argument alone, whatever the method: a map[string]string goes out as
\* key-sorted form data labelled application/x-www-form-urlencoded, any other
\* non-nil value as its JSON labelled application/json, and nil as no body
\* without a Content-Type header.
C25_XtBodyEncoding ==
    \A i \in CallIds :
        (client.pkg = "xt" /\ Handed(i))
        => LET body == calls[i].in.body
               req == calls[i].req
           IN  /\ req.body = ExpectedBody(body)
               /\ body.kind = "nil" => "Content-Type" \notin DOMAIN req.headers
               /\ body.kind = "form"
                  => /\ "Content-Type" \in DOMAIN req.headers
                     /\ req.headers["Content-Type"] = <<"application/x-www-form-urlencoded">>
                     /\ KeySorted(req.body, body.form)
               /\ body.kind = "json"
                  => /\ "Content-Type" \in DOMAIN req.headers
                     /\ req.headers["Content-Type"] = <<"application/json">>

\* a GET request that carries a form body of two keys
C25_Witness ==
    \E i \in CallIds :
        /\ client.pkg = "xt" /\ Handed(i)
        /\ calls[i].in.method = "GET"
        /\ calls[i].in.body.kind = "form"
        /\ DOMAIN calls[i].in.body.form = Keys
        /\ calls[i].req.headers["Content-Type"] = <<"application/x-www-form-urlencoded">>
        /\ calls[i].req.body = <<"a", "=", "1", "&", "b", "=", "2">>

----------------------------------------------------------------------------
(* C26 *)

----------------------------------------------------------------------------
(* C27 *)

\* C27: the path given to the signer of an authenticated Gate.io request is the
\* path component of the URL the request is sent to, whatever base URL
\* SetBaseURL has stored.
C27_SignedPathIsURLPath ==
    \A i \in CallIds :
        (client.pkg = "gateio" /\ Authenticated(i))
        => calls[i].sig.path = URLPath(calls[i].req.url)

----------------------------------------------------------------------------
(* C28 *)

\* C28: whatever SetRecvWindow stored, the headers of an XT request are those of
\* a client with the default receive window (none of them carries the window)
\* and its signature is the one the signer gives with the default window; and
\* a step that changes recvWindow changes no other field of the client.
C28_RecvWindowUnused ==
    /\ [](\A i \in CallIds :
             (client.pkg = "xt" /\ Handed(i))
             => /\ DOMAIN calls[i].req.headers \subseteq {"Content-Type", "Accept"} \cup XtAuthNames
                /\ Authenticated(i)
                   => Signature(i) =
                          <<"hmac-", "sha256", "(">> \o client.secretKey \o <<",">>
                          \o <<"validate-appkey=">> \o client.apiKey
                          \o <<"&validate-timestamp=">> \o calls[i].sig.timestamp
                          \o <<"#">> \o calls[i].sig.path
                          \o Segment(calls[i].sig.query) \o Segment(calls[i].sig.body)
                          \o <<")">>)
    /\ [][client'.recvWindow # client.recvWindow
           => \A f \in ClientFields \ {"recvWindow"} : client'[f] = client[f]]_vars

\* an authenticated XT request made after SetRecvWindow stored 1000
C28_Witness ==
    \E i \in CallIds :
        /\ client.pkg = "xt" /\ client.recvWindow = <<"1", "0", "0", "0">>
        /\ Authenticated(i)
        /\ calls[i].pc = "inflight"

----------------------------------------------------------------------------
(* C29 *)

\* a *string argument that gives no value
Missing(ptr) == ptr.isNil \/ ptr.s = <<>>

\* the arguments fail the check of their wrapper
ArgCheckFails(a) ==
    CASE a.wrapper = "ListFuturesOrders" -> a.status = <<"open">> /\ a.contract.isNil
      [] a.wrapper = "PlaceOrder" ->
             \/ \E f \in {"symbol", "orderSide", "orderType", "origQty", "positionSide"} :
                   a.req[f] = <<>>
             \/ a.req.orderType = <<"LIMIT">> /\ Missing(a.req.price)
      [] a.wrapper = "PlaceBatchOrder" -> a.list = <<>>
      [] a.wrapper = "CreatePlanOrder" ->
             a.req.entrustType \in {<<"TAKE_PROFIT">>, <<"STOP">>} /\ Missing(a.req.price)
      [] a.wrapper = "UpdatePositionMargin" -> a.marginType \notin {<<"ADD">>, <<"SUB">>}
      [] OTHER -> FALSE

\* C29: a wrapper call whose arguments fail the wrapper's own check has returned
\* an error with a nil result, and no request was built or handed to the
\* transport for it.
C29_ArgumentCheckRejects ==
    \A i \in CallIds :
        (Called(i) /\ ArgCheckFails(calls[i].args))
        => /\ calls[i].pc = "done"
           /\ calls[i].ret = [result |-> "nil", err |-> "arg_error"]
           /\ calls[i].req = NoReq
           /\ calls[i].doCalls = 0
           /\ calls[i].resp = NoResp
           /\ calls[i].in = NoInput

\* a LIMIT order without a price, complete otherwise, was rejected on a client
\* that has its credentials
C29_Witness ==
    \E i \in CallIds :
        /\ ~CredentialMissing
        /\ calls[i].args.wrapper = "PlaceOrder"
        /\ calls[i].args.req.symbol # <<>> /\ calls[i].args.req.origQty # <<>>
        /\ calls[i].args.req.orderSide # <<>> /\ calls[i].args.req.positionSide # <<>>
        /\ calls[i].args.req.orderType = <<"LIMIT">> /\ calls[i].args.req.price.isNil
        /\ calls[i].ret = [result |-> "nil", err |-> "arg_error"]
        /\ calls[i].doCalls = 0

----------------------------------------------------------------------------
(* C30 *)

\* two authenticated XT requests with the same API key, timestamp and path
SamePathAndTime(i, j) ==
    /\ i # j /\ client.pkg = "xt"
    /\ Authenticated(i) /\ Authenticated(j)
    /\ calls[i].sig.timestamp = calls[j].sig.timestamp
    /\ calls[i].sig.path = calls[j].sig.path

\* the two requests were given the same signing string: under one secret key,
\* their signatures are equal
SameSigningString(i, j) == Signature(i) = Signature(j)

\* C30 as stated: two such requests receive the same signing string only if
\* their signed query strings are equal and their body strings are equal.
C30_Original ==
    \A i, j \in CallIds :
        (SamePathAndTime(i, j) /\ SameSigningString(i, j))
        => /\ calls[i].sig.query = calls[j].sig.query
           /\ calls[i].sig.body = calls[j].sig.body

\* C30, amended: two such requests receive the same signing string exactly when
\* their non-empty segments, each with its "#", give the same text one after the
\* other; so with equal signed queries only if the bodies are equal, and with
\* equal bodies only if the signed queries are equal, while a request with query
\* q and no body and one with no signed query and body q receive the same one.
C30_SigningStringSeparates ==
    \A i, j \in CallIds :
        SamePathAndTime(i, j)
        => LET qi == calls[i].sig.query
               qj == calls[j].sig.query
               bi == calls[i].sig.body
               bj == calls[j].sig.body
           IN  /\ SameSigningString(i, j) <=> Segment(qi) \o Segment(bi) = Segment(qj) \o Segment(bj)
               /\ (SameSigningString(i, j) /\ qi = qj) => bi = bj
               /\ (SameSigningString(i, j) /\ bi = bj) => qi = qj
               /\ (qi # <<>> /\ bi = <<>> /\ qj = <<>> /\ bj = qi) => SameSigningString(i, j)

\* a GET with the query a=1 and no body, and a request with no signed query and
\* the form body a=1, both in flight with one signature
C30_Witness ==
    /\ SamePathAndTime(1, 2)
    /\ calls[1].in.method = "GET"
    /\ calls[1].sig.query = <<"a", "=", "1">> /\ calls[1].req.body = <<>>
    /\ calls[2].sig.query = <<>> /\ calls[2].req.body = <<"a", "=", "1">>
    /\ Signature(1) = Signature(2)

====
